---- MODULE Spec2Model ----
(***************************************************************************)
(* Model of the coding agent's orchestration engine:                       *)
(*   - AgentState / Task            (core/state.py)                        *)
(*   - AgenticLoop.run and its transition policy (core/loop.py)            *)
(*   - the four built-in actions    (actions/*.py)                         *)
(*   - AnthropicClient.generate_with_tools (tools/llm_client.py)           *)
(*   - AnthropicClient.register_tool / _execute_tool (tools/llm_client.py) *)
(*   - WebCrawler.fetch_multiple    (tools/web_crawler.py)                 *)
(*   - ToolExecutor.execute_code_runner (tools/tool_executor.py)           *)
(*   - WebSearchAction.execute      (actions/search.py)                    *)
(*   - AgentState's methods called directly (core/state.py)                *)
(* Each component has its own specification (SpecLoop, SpecProtocol,       *)
(* SpecRegistry, SpecFetch, SpecRunner, SpecSearch, SpecState, SpecRuns,   *)
(* SpecQueries); the                                                       *)
(* variables of the components that are not running stay at their idle    *)
(* values.                                                                 *)
(***************************************************************************)
EXTENDS Integers, Sequences, FiniteSets, TLC

VARIABLES
    \* ---- AgenticLoop (core/loop.py) ----
    enable_web_search,  \* AgenticLoop.enable_web_search
    llm_client,         \* AgenticLoop.llm_client is set (truthy)
    ddgs_installed,     \* tools/web_search.py: DDGS is not None
    search_tool,        \* WebSearchAction.search_tool: "None" or "WebSearch"
    state,              \* the AgentState of the current run
    action,             \* the action _determine_next_action returned
    loop_pc,            \* position inside AgenticLoop.run
    log,                \* history: the dispatches (execute calls) of this run
    exc,                \* history: the exception an execute raised, if any
    \* ---- AnthropicClient.generate_with_tools (tools/llm_client.py) ----
    max_iterations,         \* parameter max_iterations
    iteration,              \* number of loop iterations of `for iteration in range(...)` started
    conversation_messages,  \* the transcript
    tool_calls_made,        \* accumulated {name, input, result} records
    response,               \* the engine's response of the current turn
    tool_results,           \* tool_result entries of the current turn
    block,                  \* index of the next content block to process
    result,                 \* the returned dictionary
    pc,                     \* position inside generate_with_tools
    engine_calls,           \* history: number of client.messages.create calls
    sent,                   \* history: the transcript given to the last engine call
    \* ---- AnthropicClient.register_tool / _execute_tool (tools/llm_client.py) ----
    tool_registry,          \* AnthropicClient.tool_registry: name -> callable ("None": absent)
    tool_definitions,       \* AnthropicClient.tool_definitions
    registered,             \* history: the register_tool calls, in order
    last_exec,              \* history: the last _execute_tool call and its outcome
    \* ---- WebCrawler.fetch_multiple (tools/web_crawler.py) ----
    urls,                   \* parameter urls
    max_concurrent,         \* parameter max_concurrent
    sem_value,              \* the free slots of asyncio.Semaphore(max_concurrent)
    fetch_task,             \* per position of urls: "waiting", "in_flight" or "done"
    pages,                  \* per position of urls: what gather collected for it
    fetch_result,           \* the returned dictionary: url -> page
    fetch_pc,               \* position inside fetch_multiple
    \* ---- ToolExecutor.execute_code_runner (tools/tool_executor.py) ----
    language,               \* parameter language
    code,                   \* parameter code
    disk,                   \* the temporary files that exist
    temp_file,              \* local temp_file (0: not assigned)
    run_result,             \* the returned dictionary
    run_pc,                 \* position inside execute_code_runner
    runner_calls,           \* history: number of execute_code_runner calls
    created,                \* history: the file this call created (0: none)
    started,                \* history: this call started an interpreter process
    outcome,                \* history: how this call's run ended
    \* ---- WebSearchAction.execute (actions/search.py) ----
    wsa_ddgs,               \* WebSearch() can be built (the ddgs package is there)
    wsa_enable_crawling,    \* self.enable_crawling
    wsa_max_crawl_urls,     \* self.max_crawl_urls
    wsa_queries,            \* local queries
    wsa_index,              \* position of `for query in queries`
    wsa_all_results,        \* local all_results
    wsa_urls,               \* local all_urls_to_crawl
    wsa_successful,         \* local successful_queries
    wsa_failed,             \* local failed_queries
    wsa_result,             \* the returned dictionary
    wsa_pc,                 \* position inside execute
    wsa_searched,           \* history: per query, what search_tool.search did
    \* ---- AgentState in the hands of its callers (core/state.py) ----
    api_state,              \* the AgentState the calls are made on
    api_pending,            \* history: what get_pending_tasks returned for the current state
    api_calls,              \* history: number of add_task / update_task_status calls
    api_last,               \* history: the last call and its arguments
    \* ---- WebSearchAction._generate_search_queries (actions/search.py) ----
    gsq_state,              \* parameter state
    gsq_queries             \* the returned list (once the call has returned)

loopVars == <<enable_web_search, llm_client, ddgs_installed, search_tool, state,
              action, loop_pc, log, exc>>
protoVars == <<max_iterations, iteration, conversation_messages, tool_calls_made,
               response, tool_results, block, result, pc, engine_calls, sent>>
regVars == <<tool_registry, tool_definitions, registered, last_exec>>
fetchVars == <<urls, max_concurrent, sem_value, fetch_task, pages, fetch_result, fetch_pc>>
runVars == <<language, code, disk, temp_file, run_result, run_pc, runner_calls, created,
             started, outcome>>
wsaVars == <<wsa_ddgs, wsa_enable_crawling, wsa_max_crawl_urls, wsa_queries, wsa_index,
             wsa_all_results, wsa_urls, wsa_successful, wsa_failed, wsa_result, wsa_pc,
             wsa_searched>>
apiVars == <<api_state, api_pending, api_calls, api_last>>
gsqVars == <<gsq_state, gsq_queries>>
vars == <<loopVars, protoVars, regVars, fetchVars, runVars, wsaVars, apiVars, gsqVars>>
\* what the actions of one component leave alone
nonLoopVars == <<protoVars, regVars, fetchVars, runVars, wsaVars, apiVars, gsqVars>>
nonProtoVars == <<loopVars, regVars, fetchVars, runVars, wsaVars, apiVars, gsqVars>>
nonRegVars == <<loopVars, protoVars, fetchVars, runVars, wsaVars, apiVars, gsqVars>>
nonFetchVars == <<loopVars, protoVars, regVars, runVars, wsaVars, apiVars, gsqVars>>
nonRunVars == <<loopVars, protoVars, regVars, fetchVars, wsaVars, apiVars, gsqVars>>
nonWsaVars == <<loopVars, protoVars, regVars, fetchVars, runVars, apiVars, gsqVars>>
nonApiVars == <<loopVars, protoVars, regVars, fetchVars, runVars, wsaVars, gsqVars>>
nonGsqVars == <<loopVars, protoVars, regVars, fetchVars, runVars, wsaVars, apiVars>>

None == "None"

(***************************************************************************)
(* Bounds of the model.                                                    *)
(***************************************************************************)
MaxLog == 6            \* dispatches remembered in the history variable log
NumUuids == 2          \* size of the space uuid4()[:8] draws task ids from
MaxIterationsBound == 3 \* max_iterations ranges over 0..MaxIterationsBound
MaxInitMessages == 1   \* caller's messages: 0..MaxInitMessages plain user messages
MaxRegistrations == 2  \* register_tool calls on one client
MaxUrls == 4           \* fetch_multiple: length of urls is 0..MaxUrls
MaxConcurrent == 2     \* fetch_multiple: max_concurrent ranges over -1..MaxConcurrent
MaxRunnerCalls == 2    \* execute_code_runner calls on one machine
MaxCrawlUrlsBound == 2 \* WebSearchAction: max_crawl_urls ranges over 0..MaxCrawlUrlsBound
MaxStateCalls == 4     \* add_task / update_task_status calls on one AgentState
MaxQueryTasks == 3     \* _generate_search_queries: length of todo_list is 0..MaxQueryTasks

\* _generate_search_queries returns at most this many queries
MaxQueries == 3

\* the outcome of a call that has not been made
NoOutcome == [coroutine |-> FALSE, ran |-> <<>>, raises |-> FALSE, value |-> <<>>]
NoExec == [done |-> FALSE, name |-> None, input |-> None, at |-> 0, out |-> NoOutcome]

\* The client is not in use: nothing registered, nothing executed.
RegistryIdle ==
    /\ tool_registry = [n \in {"t1", "t2"} |-> None]
    /\ tool_definitions = <<>>
    /\ registered = <<>>
    /\ last_exec = NoExec

\* The URLs a caller passes to the crawler.
Urls == {"u1", "u2", "u3"}

\* no WebPage: a position gather has no result for, a key the dictionary lacks
NoPage == [exception |-> FALSE, url |-> None, status_code |-> None, error |-> None, by |-> 0]

\* fetch_multiple is not running
FetchIdle ==
    /\ urls = <<>>
    /\ max_concurrent = 0
    /\ sem_value = 0
    /\ fetch_task = <<>>
    /\ pages = <<>>
    /\ fetch_result = [u \in Urls |-> NoPage]
    /\ fetch_pc = "idle"

\* no result dictionary yet
NoRunResult == [keys |-> {}, success |-> FALSE, returncode |-> None, error |-> <<>>]

\* execute_code_runner has not been called
RunnerIdle ==
    /\ language = None
    /\ code = None
    /\ disk = {}
    /\ temp_file = 0
    /\ run_result = NoRunResult
    /\ run_pc = "ready"
    /\ runner_calls = 0
    /\ created = 0
    /\ started = FALSE
    /\ outcome = "none"

\* no result dictionary yet
NoWsaResult ==
    [search_performed |-> FALSE, crawl_performed |-> FALSE, search_results |-> <<>>,
     crawl_results |-> <<>>, error |-> None, search_summary |-> None]

\* WebSearchAction.execute is not running
WsaIdle ==
    /\ wsa_ddgs = FALSE
    /\ wsa_enable_crawling = FALSE
    /\ wsa_max_crawl_urls = 0
    /\ wsa_queries = <<>>
    /\ wsa_index = 0
    /\ wsa_all_results = <<>>
    /\ wsa_urls = <<>>
    /\ wsa_successful = 0
    /\ wsa_failed = 0
    /\ wsa_result = NoWsaResult
    /\ wsa_pc = "idle"
    /\ wsa_searched = <<>>

(***************************************************************************)
(* core/state.py                                                           *)
(***************************************************************************)
TaskStatus == {"pending", "in_progress", "completed", "failed"}

\* The words _generate_search_queries looks for in a task's content.
Keywords == {"function", "class", "api", "database"}

\* A request is represented by the keywords its first 50 characters contain
\* (the only thing the orchestration reads from the text).
Requests == SUBSET Keywords

\* Task(id, content, status=PENDING, priority="high")
Task(id, content, kws, status, priority) ==
    [id |-> id, content |-> content, kws |-> kws, status |-> status, priority |-> priority]

EmptyContext ==
    [keys |-> {}, search_results |-> <<>>, search_performed |-> FALSE, error |-> ""]

\* AgentState(user_request=...)
AgentState(request) ==
    [user_request |-> request,
     todo_list |-> <<>>,
     analysis |-> None,
     generated_code |-> None,
     current_step |-> "start",
     context |-> EmptyContext,
     is_complete |-> FALSE]

\* AgentState.add_task
add_task(s, task) == [s EXCEPT !.todo_list = Append(@, task)]

\* Index of the first task with this id, 0 when there is none.
FirstWithId(todo, id) ==
    IF \E i \in 1..Len(todo) : todo[i].id = id
    THEN CHOOSE i \in 1..Len(todo) :
            /\ todo[i].id = id
            /\ \A j \in 1..(i - 1) : todo[j].id # id
    ELSE 0

\* AgentState.update_task_status: the first task with the id, then break
update_task_status(s, id, status) ==
    LET i == FirstWithId(s.todo_list, id)
    IN IF i = 0 THEN s ELSE [s EXCEPT !.todo_list[i].status = status]

\* IsPending that also takes the tasks in progress
IsPending_OrInProgress(task) == task.status \in {"pending", "in_progress"}

\* get_pending_tasks, line 62: task.status == TaskStatus.PENDING
IsPending(task) == task.status = "pending"

\* AgentState.get_pending_tasks
get_pending_tasks(s) == SelectSeq(s.todo_list, IsPending)

\* mark_complete that flips the flag instead of setting it
mark_complete_Toggle(s) == [s EXCEPT !.is_complete = ~@]

\* AgentState.mark_complete
mark_complete(s) == [s EXCEPT !.is_complete = TRUE]

\* state.context.get(key) is truthy
ContextTruthy(s, key) ==
    /\ key \in s.context.keys
    /\ CASE key = "search_performed" -> s.context.search_performed
         [] key = "error" -> s.context.error # ""
         [] key = "search_results" -> s.context.search_results # <<>>
         [] OTHER -> FALSE

\* Python truthiness of an Optional[str] field
Truthy(text) == text # None /\ text # ""

\* get_pending_tasks has not been called on the current state
NoPending == [called |-> FALSE, value |-> <<>>]

\* no call has been made on the AgentState
NoCall == [op |-> "", id |-> "", status |-> ""]

\* no caller holds an AgentState of its own
ApiIdle ==
    /\ api_state = AgentState({})
    /\ api_pending = NoPending
    /\ api_calls = 0
    /\ api_last = NoCall

\* _generate_search_queries has not returned
NoQueries == [called |-> FALSE, value |-> <<>>]

\* _generate_search_queries is not being called on its own
GsqIdle ==
    /\ gsq_state = AgentState({})
    /\ gsq_queries = NoQueries

\* the tool components other than c are not in use
IdleTools(c) ==
    /\ c # "registry" => RegistryIdle
    /\ c # "fetch" => FetchIdle
    /\ c # "runner" => RunnerIdle
    /\ c # "search" => WsaIdle
    /\ c # "state" => ApiIdle
    /\ c # "queries" => GsqIdle

\* the components other than the loop and the protocol are not in use
ToolsIdle == IdleTools("none")

(***************************************************************************)
(* actions/analyze.py, actions/plan.py, actions/generate.py                *)
(***************************************************************************)
\* AnalyzeRequirementAction.execute: {"analysis": <text>}, never empty
AnalyzeResult(s, llm) ==
    IF llm THEN "Analysis of: request" ELSE "Basic analysis of request"

\* CreateTodoAction.execute with an llm_client: five tasks with uuid ids
LlmTodoList(ids) ==
    << Task(ids[1], "Understand the core requirements and constraints", {}, "pending", "high"),
       Task(ids[2], "Design the code structure and architecture", {}, "pending", "high"),
       Task(ids[3], "Implement the main functionality", {"function"}, "pending", "high"),
       Task(ids[4], "Add error handling and edge cases", {}, "pending", "medium"),
       Task(ids[5], "Write documentation and examples", {}, "pending", "low") >>

\* CreateTodoAction.execute without an llm_client: the fixed three tasks; the
\* second one embeds user_request[:50]
FallbackTodoList(request) ==
    << Task("task-001", "Analyze and understand the requirements", {}, "pending", "high"),
       Task("task-002", "Create implementation for: request", request, "pending", "high"),
       Task("task-003", "Test and validate the generated code", {}, "pending", "medium") >>

Uuids == 1..NumUuids

\* GenerateCodeAction.execute: {"code": _generate_mock_code(user_request)}
GenerateResult(s) == "Generated code for: request"

(***************************************************************************)
(* actions/search.py                                                       *)
(***************************************************************************)
\* the "unique_queries" loop without its membership test
Dedup_KeepAll(qs, acc) == acc \o qs

RECURSIVE Dedup(_, _)
\* the "unique_queries" loop: keep the first occurrence of each query
Dedup(qs, acc) ==
    IF qs = <<>> THEN acc
    ELSE Dedup(Tail(qs),
               IF \E i \in 1..Len(acc) : acc[i] = Head(qs) THEN acc ELSE Append(acc, Head(qs)))

Prefix(seq, n) == SubSeq(seq, 1, IF Len(seq) < n THEN Len(seq) ELSE n)

\* the query one pending task contributes (<<>> when none)
TaskQuery(task) ==
    IF "function" \in task.kws \/ "class" \in task.kws
        THEN << <<"python example implementation", task.content>> >>
    ELSE IF "api" \in task.kws
        THEN << <<"how to create", task.content>> >>
    ELSE IF "database" \in task.kws
        THEN << <<"python database tutorial", task.content>> >>
    ELSE <<>>

RECURSIVE TaskQueries(_)
TaskQueries(tasks) ==
    IF tasks = <<>> THEN <<>> ELSE TaskQuery(Head(tasks)) \o TaskQueries(Tail(tasks))

\* WebSearchAction._generate_search_queries
GenerateSearchQueries(s) ==
    LET general == IF ~Truthy(s.analysis)
                   THEN << <<"how to implement", "request">>, <<"best practices", "request">> >>
                   ELSE <<>>
        tasks == IF Truthy(s.analysis) /\ s.todo_list # <<>>
                 THEN TaskQueries(Prefix(get_pending_tasks(s), 2))
                 ELSE <<>>
        err == IF ContextTruthy(s, "error")
               THEN << <<"solution", s.context.error>> >>
               ELSE <<>>
    IN Prefix(Dedup(general \o tasks \o err, <<>>), 3)

RECURSIVE Keep(_, _, _)
\* the entries of seq at the positions not in drop, in order
Keep(seq, drop, i) ==
    IF i > Len(seq) THEN <<>>
    ELSE (IF i \in drop THEN <<>> ELSE <<seq[i]>>) \o Keep(seq, drop, i + 1)

\* the all_results list: one entry per query whose search did not throw
SearchEntries(queries, thrown) ==
    LET kept == Keep(queries, thrown, 1)
    IN [i \in 1..Len(kept) |-> [query |-> kept[i]]]

(***************************************************************************)
(* core/loop.py                                                            *)
(***************************************************************************)
ActionNames == {"analyze_requirement", "create_todo", "generate_code", "web_search"}

\* The branch of _determine_next_action that marks the state complete
PolicyMarksComplete(s, enable) ==
    LET pending == get_pending_tasks(s)
    IN /\ ~(~Truthy(s.analysis) /\ s.current_step = "start")
       /\ ~(s.todo_list = <<>> /\ Truthy(s.analysis))
       /\ ~(pending # <<>> /\ ~Truthy(s.generated_code))
       /\ (pending = <<>> \/ Truthy(s.generated_code))

\* DetermineNextAction without the `not state.generated_code` test of line 45
DetermineNextAction_IgnoresCode(s, enable) ==
    LET pending == get_pending_tasks(s)
    IN IF ~Truthy(s.analysis) /\ s.current_step = "start"
       THEN (IF enable /\ ~ContextTruthy(s, "search_performed")
             THEN "web_search" ELSE "analyze_requirement")
       ELSE IF s.todo_list = <<>> /\ Truthy(s.analysis)
       THEN "create_todo"
       ELSE IF pending # <<>>
       THEN (IF enable /\ s.current_step = "planned"
             THEN "web_search" ELSE "generate_code")
       ELSE "analyze_requirement"

\* DetermineNextAction without the search-first branch of lines 35-36
DetermineNextAction_AnalyzeFirst(s, enable) ==
    LET pending == get_pending_tasks(s)
    IN IF ~Truthy(s.analysis) /\ s.current_step = "start"
       THEN "analyze_requirement"
       ELSE IF s.todo_list = <<>> /\ Truthy(s.analysis)
       THEN "create_todo"
       ELSE IF pending # <<>> /\ ~Truthy(s.generated_code)
       THEN (IF enable /\ s.current_step = "planned"
             THEN "web_search" ELSE "generate_code")
       ELSE "analyze_requirement"

\* DetermineNextAction that searches once: line 35 asking whether a search
\* result was stored instead of what its search_performed says
DetermineNextAction_SearchOnce(s, enable) ==
    LET pending == get_pending_tasks(s)
    IN IF ~Truthy(s.analysis) /\ s.current_step = "start"
       THEN (IF enable /\ "search_performed" \notin s.context.keys
             THEN "web_search" ELSE "analyze_requirement")
       ELSE IF s.todo_list = <<>> /\ Truthy(s.analysis)
       THEN "create_todo"
       ELSE IF pending # <<>> /\ ~Truthy(s.generated_code)
       THEN (IF enable /\ s.current_step = "planned"
             THEN "web_search" ELSE "generate_code")
       ELSE "analyze_requirement"

\* DetermineNextAction that tests for an empty todo list first and does not
\* ask for an analysis (lines 33 and 40 exchanged, `and state.analysis` dropped)
DetermineNextAction_PlanFirst(s, enable) ==
    LET pending == get_pending_tasks(s)
    IN IF s.todo_list = <<>>
       THEN "create_todo"
       ELSE IF pending # <<>> /\ ~Truthy(s.generated_code)
       THEN (IF enable /\ s.current_step = "planned"
             THEN "web_search" ELSE "generate_code")
       ELSE "analyze_requirement"

\* AgenticLoop._determine_next_action: the name of the action returned
DetermineNextAction(s, enable) ==
    LET pending == get_pending_tasks(s)
    IN IF ~Truthy(s.analysis) /\ s.current_step = "start"
       THEN (IF enable /\ ~ContextTruthy(s, "search_performed")
             THEN "web_search" ELSE "analyze_requirement")
       ELSE IF s.todo_list = <<>> /\ Truthy(s.analysis)
       THEN "create_todo"
       ELSE IF pending # <<>> /\ ~Truthy(s.generated_code)
       THEN (IF enable /\ s.current_step = "planned"
             THEN "web_search" ELSE "generate_code")
       ELSE "analyze_requirement"

\* the state _determine_next_action leaves behind
StateAfterPolicy(s, enable) ==
    IF PolicyMarksComplete(s, enable) THEN mark_complete(s) ELSE s

\* history: remember a dispatch (the log saturates at MaxLog entries)
Logged(name) ==
    IF Len(log) < MaxLog
    THEN Append(log, [action |-> name, step |-> state.current_step])
    ELSE log

\* `while not state.is_complete` after an iteration's merge
AfterIteration(s) == IF s.is_complete THEN "returned" ELSE "select"

\* No response received yet / nothing returned yet
NoResponse == [stop_reason |-> None, content |-> <<>>]
NoResult == [content |-> <<>>, tool_calls |-> <<>>, stop_reason |-> None]

\* ExcTexts: str(e) of the exceptions an execute may raise
ExcTexts == {"", "boom"}

LoopIdleProtocol ==
    /\ max_iterations = 0
    /\ iteration = 0
    /\ conversation_messages = <<>>
    /\ tool_calls_made = <<>>
    /\ response = NoResponse
    /\ tool_results = <<>>
    /\ block = 0
    /\ result = NoResult
    /\ pc = "idle"
    /\ engine_calls = 0
    /\ sent = <<>>

\* AgenticLoop(llm_client, enable_web_search) constructed, run(user_request) entered
LoopInit ==
    /\ enable_web_search \in BOOLEAN
    /\ llm_client \in BOOLEAN
    /\ ddgs_installed \in BOOLEAN
    /\ search_tool = None
    /\ \E request \in Requests : state = AgentState(request)
    /\ action = None
    /\ loop_pc = "select"
    /\ log = <<>>
    /\ exc = [raised |-> FALSE, text |-> ""]
    /\ LoopIdleProtocol
    /\ ToolsIdle

\* run, lines 72-79: the policy picks an action and its can_execute is true
SelectAction ==
    /\ loop_pc = "select"
    /\ action' = DetermineNextAction(state, enable_web_search)
    /\ state' = StateAfterPolicy(state, enable_web_search)
    /\ loop_pc' = "execute"
    /\ UNCHANGED <<enable_web_search, llm_client, ddgs_installed, search_tool, log, exc>>
    /\ UNCHANGED nonLoopVars

\* CanExecuteFalse with the loop leaving through `break` without mark_complete
CanExecuteFalse_NoMark ==
    /\ loop_pc = "select"
    /\ action' = DetermineNextAction(state, enable_web_search)
    /\ state' = StateAfterPolicy(state, enable_web_search)
    /\ loop_pc' = "returned"
    /\ UNCHANGED <<enable_web_search, llm_client, ddgs_installed, search_tool, log, exc>>
    /\ UNCHANGED nonLoopVars

\* run, lines 76-79: the selected action reports can_execute false
CanExecuteFalse ==
    /\ loop_pc = "select"
    /\ action' = DetermineNextAction(state, enable_web_search)
    /\ state' = mark_complete(StateAfterPolicy(state, enable_web_search))
    /\ loop_pc' = "returned"
    /\ UNCHANGED <<enable_web_search, llm_client, ddgs_installed, search_tool, log, exc>>
    /\ UNCHANGED nonLoopVars

\* an execute that marks the state it was given complete
AfterExecute_MarksComplete(name, s) == mark_complete(s)

\* action.execute(state), line 83: the state as the action leaves it.  The four
\* execute methods read user_request, analysis, todo_list and context and
\* assign no field of the state; what they produce is the returned mapping.
AfterExecute(name, s) == s

\* run, lines 83-88: analyze_requirement executes and its result is merged
ExecuteAnalyze ==
    /\ loop_pc = "execute"
    /\ action = "analyze_requirement"
    /\ state' = [AfterExecute(action, state) EXCEPT
                     !.analysis = AnalyzeResult(state, llm_client),
                     !.current_step = "analyzed"]
    /\ log' = Logged(action)
    /\ loop_pc' = AfterIteration(state')
    /\ UNCHANGED <<enable_web_search, llm_client, ddgs_installed, search_tool, action, exc>>
    /\ UNCHANGED nonLoopVars

\* run, lines 91-94: add_task for every entry of result["todo_list"], in order
AddTasks(s, tasks) == [s EXCEPT !.todo_list = @ \o tasks]

\* run, lines 83-95: create_todo executes and its result is merged
ExecutePlan ==
    /\ loop_pc = "execute"
    /\ action = "create_todo"
    /\ \E ids \in [1..5 -> Uuids] :
         LET todo == IF llm_client THEN LlmTodoList(ids)
                     ELSE FallbackTodoList(state.user_request)
         IN state' = [AddTasks(AfterExecute(action, state), todo) EXCEPT
                         !.current_step = "planned"]
    /\ log' = Logged(action)
    /\ loop_pc' = AfterIteration(state')
    /\ UNCHANGED <<enable_web_search, llm_client, ddgs_installed, search_tool, action, exc>>
    /\ UNCHANGED nonLoopVars

\* run, lines 101-102: update_task_status(task.id, COMPLETED) for every task of
\* todo_list: each call completes the first task that carries task.id
CompleteAll(s) ==
    LET todo == s.todo_list
    IN [s EXCEPT !.todo_list =
            [i \in 1..Len(todo) |->
                IF \E k \in 1..Len(todo) : FirstWithId(todo, todo[k].id) = i
                THEN [todo[i] EXCEPT !.status = "completed"]
                ELSE todo[i]]]

\* run, lines 83-102: generate_code executes and its result is merged
ExecuteGenerate ==
    /\ loop_pc = "execute"
    /\ action = "generate_code"
    /\ state' = CompleteAll([AfterExecute(action, state) EXCEPT
                                !.generated_code = GenerateResult(state),
                                !.current_step = "completed"])
    /\ log' = Logged(action)
    /\ loop_pc' = AfterIteration(state')
    /\ UNCHANGED <<enable_web_search, llm_client, ddgs_installed, search_tool, action, exc>>
    /\ UNCHANGED nonLoopVars

\* run, lines 105-109: a web_search result is stored in the context
MergeSearch(s, results, performed) ==
    [s EXCEPT !.context = [@ EXCEPT !.keys = @ \cup {"search_results", "search_performed"},
                                    !.search_results = results,
                                    !.search_performed = performed]]

\* search.py lines 36-48 and run lines 105-109: WebSearch() cannot be built,
\* execute returns search_performed False and the loop merges it
ExecuteSearchNoTool ==
    /\ loop_pc = "execute"
    /\ action = "web_search"
    /\ search_tool = None
    /\ ~ddgs_installed
    /\ state' = MergeSearch(AfterExecute(action, state), <<>>, FALSE)
    /\ log' = Logged(action)
    /\ loop_pc' = AfterIteration(state')
    /\ UNCHANGED <<enable_web_search, llm_client, ddgs_installed, search_tool, action, exc>>
    /\ UNCHANGED nonLoopVars

\* search.py lines 36-205 and run lines 105-109: the search tool exists (or is
\* built now); every query either throws or contributes an entry
ExecuteSearch ==
    /\ loop_pc = "execute"
    /\ action = "web_search"
    /\ search_tool # None \/ ddgs_installed
    /\ search_tool' = "WebSearch"
    /\ LET queries == GenerateSearchQueries(state)
       IN \E thrown \in SUBSET (1..Len(queries)) :
            LET all_results == SearchEntries(queries, thrown)
            IN state' = MergeSearch(AfterExecute(action, state), all_results,
                                    Len(all_results) > 0)
    /\ log' = Logged(action)
    /\ loop_pc' = AfterIteration(state')
    /\ UNCHANGED <<enable_web_search, llm_client, ddgs_installed, action, exc>>
    /\ UNCHANGED nonLoopVars

\* ExecuteRaises with the handler forgetting mark_complete() and break
ExecuteRaises_NoBreak ==
    /\ loop_pc = "execute"
    /\ \E e \in ExcTexts :
         /\ exc' = [raised |-> TRUE, text |-> e]
         /\ state' = [state EXCEPT !.context = [@ EXCEPT !.keys = @ \cup {"error"},
                                                       !.error = e]]
    /\ log' = Logged(action)
    /\ loop_pc' = "select"
    /\ UNCHANGED <<enable_web_search, llm_client, ddgs_installed, search_tool, action>>
    /\ UNCHANGED nonLoopVars

\* run, lines 111-115: execute raised
ExecuteRaises ==
    /\ loop_pc = "execute"
    /\ \E e \in ExcTexts :
         /\ exc' = [raised |-> TRUE, text |-> e]
         /\ state' = mark_complete(
                [state EXCEPT !.context = [@ EXCEPT !.keys = @ \cup {"error"},
                                                    !.error = e]])
    /\ log' = Logged(action)
    /\ loop_pc' = "returned"
    /\ UNCHANGED <<enable_web_search, llm_client, ddgs_installed, search_tool, action>>
    /\ UNCHANGED nonLoopVars

LoopNext ==
    \/ SelectAction
    \/ CanExecuteFalse
    \/ ExecuteAnalyze
    \/ ExecutePlan
    \/ ExecuteGenerate
    \/ ExecuteSearchNoTool
    \/ ExecuteSearch
    \/ ExecuteRaises

\* The event loop keeps running the coroutine: run always takes its next step.
SpecLoop == LoopInit /\ [][LoopNext]_vars /\ WF_vars(LoopNext)

\* RunAgain that keeps working on the AgentState of the previous run
RunAgain_SameState ==
    /\ loop_pc = "returned"
    /\ \E request \in Requests : state' = [state EXCEPT !.user_request = request]
    /\ action' = None
    /\ loop_pc' = "select"
    /\ log' = <<>>
    /\ exc' = [raised |-> FALSE, text |-> ""]
    /\ UNCHANGED <<enable_web_search, llm_client, ddgs_installed, search_tool>>
    /\ UNCHANGED nonLoopVars

\* run, lines 59-69: run(user_request) is called again on the same loop object
\* after an earlier run has returned; the actions (and the search tool that
\* WebSearchAction built) are those of the earlier runs
RunAgain ==
    /\ loop_pc = "returned"
    /\ \E request \in Requests : state' = AgentState(request)
    /\ action' = None
    /\ loop_pc' = "select"
    /\ log' = <<>>
    /\ exc' = [raised |-> FALSE, text |-> ""]
    /\ UNCHANGED <<enable_web_search, llm_client, ddgs_installed, search_tool>>
    /\ UNCHANGED nonLoopVars

RunsNext ==
    \/ LoopNext
    \/ RunAgain

\* One loop object serving run after run.
SpecRuns == LoopInit /\ [][RunsNext]_vars /\ WF_vars(RunsNext)

(***************************************************************************)
(* tools/llm_client.py: AnthropicClient.generate_with_tools                *)
(***************************************************************************)
\* Content blocks of an engine response. A text is a sequence of tokens, so
\* that concatenation is \o.
TextBlock(t) == [type |-> "text", text |-> t, name |-> None, input |-> None, id |-> <<>>]
ToolUseBlock(name, input) ==
    [type |-> "tool_use", text |-> None, name |-> name, input |-> input, id |-> <<>>]

\* hasattr(content_block, "text")
HasText(b) == b.type = "text"

\* The tool registry of the client: tool name -> what the capability does.
\*   echo: returns its input, a str        calc: returns a dict
\*   blob: returns an object json.dumps rejects     boom: raises
ToolRegistry == {"echo", "calc", "blob", "boom"}

\* _execute_tool(tool_name, tool_input): what the call produces
ExecuteTool(name, input) ==
    IF name \notin ToolRegistry
        THEN [raises |-> TRUE, value |-> <<"Tool not registered", name>>, is_str |-> FALSE, dumps |-> FALSE]
    ELSE IF name = "boom"
        THEN [raises |-> TRUE, value |-> <<"boom", input>>, is_str |-> FALSE, dumps |-> FALSE]
    ELSE IF name = "echo"
        THEN [raises |-> FALSE, value |-> <<input>>, is_str |-> TRUE, dumps |-> TRUE]
    ELSE IF name = "calc"
        THEN [raises |-> FALSE, value |-> <<"dict", input>>, is_str |-> FALSE, dumps |-> TRUE]
    ELSE [raises |-> FALSE, value |-> <<"object", input>>, is_str |-> FALSE, dumps |-> FALSE]

\* json.dumps(tool_result)
JsonDumps(value) == <<"json">> \o value

\* the "tool_result" entry of a successful invocation (lines 193-197)
ToolResultEntry(id, out) ==
    [type |-> "tool_result", tool_use_id |-> id,
     content |-> IF out.is_str THEN out.value ELSE JsonDumps(out.value),
     is_error |-> FALSE]

\* the "tool_result" entry of the except branch (lines 199-204)
ToolErrorEntry(id, text) ==
    [type |-> "tool_result", tool_use_id |-> id,
     content |-> <<"Error executing tool: ">> \o text,
     is_error |-> TRUE]

\* tool_calls_made.append({...}) with the swapped order of a prepend
RecordCall_Prepend(calls, name, input, value) ==
    <<[name |-> name, input |-> input, result |-> value]>> \o calls

\* tool_calls_made.append({"name", "input", "result"}) (lines 186-190)
RecordCall(calls, name, input, value) ==
    Append(calls, [name |-> name, input |-> input, result |-> value])

\* the two transcript entries of a turn with the tool results left out
TurnMessages_NoResults(resp, results) ==
    << [role |-> "assistant", kind |-> "tool_request", content |-> resp.content] >>

\* the two transcript entries appended after a tool-use turn (lines 207-214)
TurnMessages(resp, results) ==
    << [role |-> "assistant", kind |-> "tool_request", content |-> resp.content],
       [role |-> "user", kind |-> "tool_results", content |-> results] >>

RECURSIVE ConcatText_Reversed(_)
\* final_text built by prepending instead of appending
ConcatText_Reversed(blocks) ==
    IF blocks = <<>> THEN <<>>
    ELSE ConcatText_Reversed(Tail(blocks))
            \o (IF HasText(Head(blocks)) THEN <<Head(blocks).text>> ELSE <<>>)

RECURSIVE ConcatText(_)
\* final_text += content_block.text for every block that has a text (lines 217-220)
ConcatText(blocks) ==
    IF blocks = <<>> THEN <<>>
    ELSE (IF HasText(Head(blocks)) THEN <<Head(blocks).text>> ELSE <<>>)
            \o ConcatText(Tail(blocks))

\* the final result with a literal stop reason
FinalResult_Literal(resp, calls) ==
    [content |-> ConcatText(resp.content), tool_calls |-> calls, stop_reason |-> "final"]

\* the dictionary returned for a response that is no tool request (lines 222-226)
FinalResult(resp, calls) ==
    [content |-> ConcatText(resp.content), tool_calls |-> calls,
     stop_reason |-> resp.stop_reason]

\* the dictionary returned when the for loop runs out (lines 229-233)
MaxIterationsResult(calls) ==
    [content |-> <<"Maximum tool use iterations reached">>, tool_calls |-> calls,
     stop_reason |-> "max_iterations"]

\* the for loop with one iteration too many
LoopHasNext_OffByOne == iteration <= max_iterations

\* a loop that only stops at a final answer
LoopHasNext_NoBudget == TRUE

\* `for iteration in range(max_iterations)` has another iteration (line 156)
LoopHasNext == iteration < max_iterations

\* The contents the engine may answer a tool-use turn with.
ToolUseContents ==
    { << ToolUseBlock("echo", "x") >>,
      << ToolUseBlock("echo", "y") >>,
      << ToolUseBlock("echo", "y"), ToolUseBlock("calc", "x") >>,
      << TextBlock("a"), ToolUseBlock("boom", "x"), ToolUseBlock("echo", "x") >>,
      << ToolUseBlock("nope", "x") >>,
      << ToolUseBlock("blob", "x") >>,
      << TextBlock("b") >> }

\* The responses that are no tool request.
FinalResponses ==
    { [stop_reason |-> "end_turn", content |-> << TextBlock("a"), TextBlock("b") >>],
      [stop_reason |-> "end_turn", content |-> << TextBlock("b"), TextBlock("a") >>],
      [stop_reason |-> "end_turn", content |-> <<>>],
      [stop_reason |-> "max_tokens",
       content |-> << TextBlock("b"), ToolUseBlock("echo", "x"), TextBlock("a") >>] }

\* The engine gives every tool_use block of its n-th response a fresh id.
WithIds(content, n) ==
    [j \in 1..Len(content) |->
        IF content[j].type = "tool_use" THEN [content[j] EXCEPT !.id = <<n, j>>]
        ELSE content[j]]

\* client.messages.create(...): the responses the n-th engine call may return
EngineResponses(n) ==
    { [stop_reason |-> "tool_use", content |-> WithIds(c, n)] : c \in ToolUseContents }
    \cup { [r EXCEPT !.content = WithIds(@, n)] : r \in FinalResponses }

\* the caller's messages: k plain user messages
InitMessages(k) ==
    [i \in 1..k |-> [role |-> "user", kind |-> "text", content |-> <<"prompt", i>>]]

ProtocolIdleLoop ==
    /\ enable_web_search = FALSE
    /\ llm_client = FALSE
    /\ ddgs_installed = FALSE
    /\ search_tool = None
    /\ state = AgentState({})
    /\ action = None
    /\ loop_pc = "idle"
    /\ log = <<>>
    /\ exc = [raised |-> FALSE, text |-> ""]

\* generate_with_tools(messages, max_iterations=...) entered (lines 150-154)
ProtocolInit ==
    /\ max_iterations \in 0..MaxIterationsBound
    /\ iteration = 0
    /\ \E k \in 0..MaxInitMessages : conversation_messages = InitMessages(k)
    /\ tool_calls_made = <<>>
    /\ response = NoResponse
    /\ tool_results = <<>>
    /\ block = 0
    /\ result = NoResult
    /\ pc = "call"
    /\ engine_calls = 0
    /\ sent = <<>>
    /\ ProtocolIdleLoop
    /\ ToolsIdle

\* lines 156-173: the next iteration sends the transcript and gets a response
EngineCall ==
    /\ pc = "call"
    /\ LoopHasNext
    /\ iteration' = iteration + 1
    /\ engine_calls' = engine_calls + 1
    /\ sent' = conversation_messages
    /\ \E r \in EngineResponses(engine_calls + 1) :
         /\ response' = r
         /\ pc' = IF r.stop_reason = "tool_use" THEN "tools" ELSE "final"
    /\ tool_results' = <<>>
    /\ block' = 1
    /\ UNCHANGED <<max_iterations, conversation_messages, tool_calls_made, result>>
    /\ UNCHANGED nonProtoVars

\* lines 159-170: client.messages.create raises; nothing in generate_with_tools
\* catches it
EngineRaises ==
    /\ pc = "call"
    /\ LoopHasNext
    /\ iteration' = iteration + 1
    /\ engine_calls' = engine_calls + 1
    /\ sent' = conversation_messages
    /\ pc' = "raised"
    /\ UNCHANGED <<max_iterations, conversation_messages, tool_calls_made, response,
                   tool_results, block, result>>
    /\ UNCHANGED nonProtoVars

\* lines 177-178: a content block that is no tool_use block is passed over
SkipBlock ==
    /\ pc = "tools"
    /\ block <= Len(response.content)
    /\ response.content[block].type # "tool_use"
    /\ block' = block + 1
    /\ UNCHANGED <<max_iterations, iteration, conversation_messages, tool_calls_made,
                   response, tool_results, result, pc, engine_calls, sent>>
    /\ UNCHANGED nonProtoVars

\* lines 184-197: the tool returns and its result is recorded and formatted
ToolSucceeds ==
    /\ pc = "tools"
    /\ block <= Len(response.content)
    /\ LET b == response.content[block]
           out == ExecuteTool(b.name, b.input)
       IN /\ b.type = "tool_use"
          /\ ~out.raises
          /\ out.is_str \/ out.dumps
          /\ tool_calls_made' = RecordCall(tool_calls_made, b.name, b.input, out.value)
          /\ tool_results' = Append(tool_results, ToolResultEntry(b.id, out))
    /\ block' = block + 1
    /\ UNCHANGED <<max_iterations, iteration, conversation_messages, response, result,
                   pc, engine_calls, sent>>
    /\ UNCHANGED nonProtoVars

\* lines 184-204: the tool returns and is recorded, json.dumps of its result
\* raises inside the try, and the except branch adds an error entry
ToolResultNotSerializable ==
    /\ pc = "tools"
    /\ block <= Len(response.content)
    /\ LET b == response.content[block]
           out == ExecuteTool(b.name, b.input)
       IN /\ b.type = "tool_use"
          /\ ~out.raises
          /\ ~out.is_str /\ ~out.dumps
          /\ tool_calls_made' = RecordCall(tool_calls_made, b.name, b.input, out.value)
          /\ tool_results' = Append(tool_results,
                                    ToolErrorEntry(b.id, <<"not JSON serializable">>))
    /\ block' = block + 1
    /\ UNCHANGED <<max_iterations, iteration, conversation_messages, response, result,
                   pc, engine_calls, sent>>
    /\ UNCHANGED nonProtoVars

\* the except branch of lines 198-204 removed: the failure leaves generate_with_tools
ToolFails_Propagates ==
    /\ pc = "tools"
    /\ block <= Len(response.content)
    /\ LET b == response.content[block]
           out == ExecuteTool(b.name, b.input)
       IN /\ b.type = "tool_use"
          /\ out.raises
    /\ pc' = "raised"
    /\ UNCHANGED <<max_iterations, iteration, conversation_messages, tool_calls_made,
                   response, tool_results, block, result, engine_calls, sent>>
    /\ UNCHANGED nonProtoVars

\* lines 184-185 and 198-204: _execute_tool raises (unregistered name, or the
\* capability raises) and the except branch adds an error entry
ToolFails ==
    /\ pc = "tools"
    /\ block <= Len(response.content)
    /\ LET b == response.content[block]
           out == ExecuteTool(b.name, b.input)
       IN /\ b.type = "tool_use"
          /\ out.raises
          /\ tool_results' = Append(tool_results, ToolErrorEntry(b.id, out.value))
    /\ block' = block + 1
    /\ UNCHANGED <<max_iterations, iteration, conversation_messages, tool_calls_made,
                   response, result, pc, engine_calls, sent>>
    /\ UNCHANGED nonProtoVars

\* lines 206-214: the turn's request and results are appended to the transcript
AppendTurn ==
    /\ pc = "tools"
    /\ block > Len(response.content)
    /\ conversation_messages' = conversation_messages \o TurnMessages(response, tool_results)
    /\ pc' = "call"
    /\ UNCHANGED <<max_iterations, iteration, tool_calls_made, response, tool_results,
                   block, result, engine_calls, sent>>
    /\ UNCHANGED nonProtoVars

\* lines 215-226: the response is no tool request
ReturnFinal ==
    /\ pc = "final"
    /\ result' = FinalResult(response, tool_calls_made)
    /\ pc' = "returned"
    /\ UNCHANGED <<max_iterations, iteration, conversation_messages, tool_calls_made,
                   response, tool_results, block, engine_calls, sent>>
    /\ UNCHANGED nonProtoVars

\* lines 228-233: the for loop ran out
ReturnMaxIterations ==
    /\ pc = "call"
    /\ ~LoopHasNext
    /\ result' = MaxIterationsResult(tool_calls_made)
    /\ pc' = "returned"
    /\ UNCHANGED <<max_iterations, iteration, conversation_messages, tool_calls_made,
                   response, tool_results, block, engine_calls, sent>>
    /\ UNCHANGED nonProtoVars

ProtocolNext ==
    \/ EngineCall
    \/ EngineRaises
    \/ SkipBlock
    \/ ToolSucceeds
    \/ ToolResultNotSerializable
    \/ ToolFails
    \/ AppendTurn
    \/ ReturnFinal
    \/ ReturnMaxIterations

\* The coroutine is always resumed: every awaited engine call and tool call
\* settles and generate_with_tools takes its next step.
SpecProtocol == ProtocolInit /\ [][ProtocolNext]_vars /\ WF_vars(ProtocolNext)

\* Both components.
(***************************************************************************)
(* tools/llm_client.py: register_tool and _execute_tool                    *)
(***************************************************************************)
ToolNames == {"t1", "t2"}
ToolInputs == {"x", "y"}
\* description and parameters of a registration
Schemas == {"s1", "s2"}

\* The callables a caller registers: a def or an async def, whose body
\* returns or raises.
Functions == {"f", "g_async", "f_raises", "g_async_raises"}

\* asyncio.iscoroutinefunction(tool_function)
IsCoroutineFunction(fn) == fn \in {"g_async", "g_async_raises"}

FunctionRaises(fn) == fn \in {"f_raises", "g_async_raises"}

\* tool_function(**tool_input): a def runs its body; an async def yields a
\* coroutine whose body has not run
Call(fn, input) ==
    [coroutine |-> IsCoroutineFunction(fn),
     ran |-> IF IsCoroutineFunction(fn) THEN <<>> ELSE <<fn>>,
     raises |-> ~IsCoroutineFunction(fn) /\ FunctionRaises(fn),
     value |-> <<fn, input>>]

\* await c: the body of the coroutine runs
Await(c) ==
    [coroutine |-> FALSE,
     ran |-> c.ran \o <<c.value[1]>>,
     raises |-> FunctionRaises(c.value[1]),
     value |-> c.value]

\* self.tool_registry.setdefault(name, function) instead of line 75
register_tool_KeepFirst(registry, name, fn) ==
    IF registry[name] = None THEN [registry EXCEPT ![name] = fn] ELSE registry

\* line 75: self.tool_registry[name] = function
register_tool(registry, name, fn) == [registry EXCEPT ![name] = fn]

\* lines 76-83: the definition appended to tool_definitions
ToolDefinition(name, schema) ==
    [type |-> "function", name |-> name, description |-> schema, parameters |-> schema]

\* _execute_tool(tool_name, tool_input) on a registry (lines 95-107)
execute_tool(registry, name, input) ==
    IF registry[name] = None
        THEN [coroutine |-> FALSE, ran |-> <<>>, raises |-> TRUE,
              value |-> <<"not registered", name>>]
    ELSE IF IsCoroutineFunction(registry[name])
        THEN Await(Call(registry[name], input))
    ELSE Call(registry[name], input)

\* AnthropicClient.__init__ lines 54-58
RegistryInit ==
    /\ RegistryIdle
    /\ IdleTools("registry")
    /\ LoopIdleProtocol
    /\ ProtocolIdleLoop

\* register_tool(name, description, parameters, function)
RegisterTool ==
    /\ Len(registered) < MaxRegistrations
    /\ \E name \in ToolNames, schema \in Schemas, fn \in Functions :
         /\ tool_registry' = register_tool(tool_registry, name, fn)
         /\ tool_definitions' = Append(tool_definitions, ToolDefinition(name, schema))
         /\ registered' = Append(registered, [name |-> name, function |-> fn])
    /\ UNCHANGED last_exec
    /\ UNCHANGED nonRegVars

\* _execute_tool with a name that is not in the registry (lines 95-96)
ExecuteUnregistered ==
    /\ \E name \in ToolNames, input \in ToolInputs :
         /\ tool_registry[name] = None
         /\ last_exec' = [done |-> TRUE, name |-> name, input |-> input,
                          at |-> Len(registered),
                          out |-> execute_tool(tool_registry, name, input)]
    /\ UNCHANGED <<tool_registry, tool_definitions, registered>>
    /\ UNCHANGED nonRegVars

\* _execute_tool with a registered name (lines 98-107); the capability's
\* exception, if any, leaves _execute_tool
ExecuteRegistered ==
    /\ \E name \in ToolNames, input \in ToolInputs :
         /\ tool_registry[name] # None
         /\ last_exec' = [done |-> TRUE, name |-> name, input |-> input,
                          at |-> Len(registered),
                          out |-> execute_tool(tool_registry, name, input)]
    /\ UNCHANGED <<tool_registry, tool_definitions, registered>>
    /\ UNCHANGED nonRegVars

RegistryNext == RegisterTool \/ ExecuteUnregistered \/ ExecuteRegistered

SpecRegistry == RegistryInit /\ [][RegistryNext]_vars /\ WF_vars(RegistryNext)

(***************************************************************************)
(* tools/web_crawler.py: WebCrawler.fetch_multiple                         *)
(***************************************************************************)
\* The lists of at most n URLs (a URL may occur more than once). Which URL
\* is which plays no role in fetch_multiple, so of the lists that differ only
\* by renaming URLs one is kept: the one that introduces u1, u2, u3 in this
\* order.
UrlLists(n) ==
    { l \in UNION {[1..k -> Urls] : k \in 0..n} :
        \A i \in 1..Len(l) :
            /\ l[i] = "u2" => \E j \in 1..(i - 1) : l[j] = "u1"
            /\ l[i] = "u3" => \E j \in 1..(i - 1) : l[j] = "u2" }

\* What the fetch of position i may come to. `by` tells the fetch that made
\* the page.
\*   a fetched page (_fetch_async, lines 135-146)
FetchedPage(u, i) ==
    [exception |-> FALSE, url |-> u, status_code |-> "200", error |-> None, by |-> i]
\*   _fetch_async / _fetch_sync caught a failure (timeout, connection error)
\*   and returned WebPage(url, error=str(e), status_code=0)
FailedPage(u, i) ==
    [exception |-> FALSE, url |-> u, status_code |-> "0", error |-> "timeout", by |-> i]
\*   fetch raised: gather(return_exceptions=True) collects the exception
RaisedException(i) ==
    [exception |-> TRUE, url |-> None, status_code |-> None, error |-> "boom", by |-> i]

\* WebPage(url=url) without the text of the exception
ErrorPage_NoText(u, page) ==
    [exception |-> FALSE, url |-> u, status_code |-> None, error |-> None, by |-> page.by]

\* line 128: WebPage(url=url, error=str(page))
ErrorPage(u, page) ==
    [exception |-> FALSE, url |-> u, status_code |-> None, error |-> page.error, by |-> page.by]

\* lines 127-131 for one (url, page) pair
ResultPage(u, page) == IF page.exception THEN ErrorPage(u, page) ELSE page

\* a loop that skips the positions whose fetch raised
RECURSIVE BuildResult_SkipExceptions(_, _, _, _)
BuildResult_SkipExceptions(us, ps, i, acc) ==
    IF i > Len(us) THEN acc
    ELSE IF ps[i].exception THEN BuildResult_SkipExceptions(us, ps, i + 1, acc)
    ELSE BuildResult_SkipExceptions(us, ps, i + 1, [acc EXCEPT ![us[i]] = ps[i]])

\* lines 125-131: for url, page in zip(urls, pages): result[url] = ...
RECURSIVE BuildResult(_, _, _, _)
BuildResult(us, ps, i, acc) ==
    IF i > Len(us) THEN acc
    ELSE BuildResult(us, ps, i + 1, [acc EXCEPT ![us[i]] = ResultPage(us[i], ps[i])])

\* a semaphore that admits everyone
CanAcquire_Always(value) == TRUE

\* Semaphore.acquire does not wait (async with semaphore, line 119)
CanAcquire(value) == value > 0

\* a gather that returns with the first settled task
GatherDone_FirstSettled(ts) == \E i \in 1..Len(ts) : ts[i] = "done"

\* await asyncio.gather(*tasks, return_exceptions=True) resumes (line 123)
GatherDone(ts) == \A i \in 1..Len(ts) : ts[i] = "done"

\* the number of fetches in flight
InFlight == Cardinality({i \in 1..Len(fetch_task) : fetch_task[i] = "in_flight"})

\* fetch_multiple(urls, max_concurrent=...) called
FetchInit ==
    /\ urls \in UrlLists(MaxUrls)
    /\ max_concurrent \in -1..MaxConcurrent
    /\ sem_value = 0
    /\ fetch_task = <<>>
    /\ pages = <<>>
    /\ fetch_result = [u \in Urls |-> NoPage]
    /\ fetch_pc = "called"
    /\ IdleTools("fetch")
    /\ LoopIdleProtocol
    /\ ProtocolIdleLoop

\* line 116: asyncio.Semaphore rejects a negative value with ValueError
SemaphoreRejects ==
    /\ fetch_pc = "called"
    /\ max_concurrent < 0
    /\ fetch_pc' = "raised"
    /\ UNCHANGED <<urls, max_concurrent, sem_value, fetch_task, pages, fetch_result>>
    /\ UNCHANGED nonFetchVars

\* lines 116-123: the semaphore is made and gather schedules one task per
\* position of urls
StartGather ==
    /\ fetch_pc = "called"
    /\ max_concurrent >= 0
    /\ sem_value' = max_concurrent
    /\ fetch_task' = [i \in 1..Len(urls) |-> "waiting"]
    /\ pages' = [i \in 1..Len(urls) |-> NoPage]
    /\ fetch_pc' = "gathering"
    /\ UNCHANGED <<urls, max_concurrent, fetch_result>>
    /\ UNCHANGED nonFetchVars

\* lines 119-120: a task enters `async with semaphore` and starts its fetch;
\* the event loop picks the task
Acquire ==
    /\ fetch_pc = "gathering"
    /\ CanAcquire(sem_value)
    /\ \E i \in 1..Len(fetch_task) :
         /\ fetch_task[i] = "waiting"
         /\ fetch_task' = [fetch_task EXCEPT ![i] = "in_flight"]
    /\ sem_value' = sem_value - 1
    /\ UNCHANGED <<urls, max_concurrent, pages, fetch_result, fetch_pc>>
    /\ UNCHANGED nonFetchVars

\* line 120: a fetch returns a WebPage (fetched, or failed inside fetch); the
\* task leaves `async with` and frees its slot
FetchReturns ==
    /\ fetch_pc = "gathering"
    /\ \E i \in 1..Len(fetch_task) :
         /\ fetch_task[i] = "in_flight"
         /\ fetch_task' = [fetch_task EXCEPT ![i] = "done"]
         /\ \E p \in {FetchedPage(urls[i], i), FailedPage(urls[i], i)} :
              pages' = [pages EXCEPT ![i] = p]
    /\ sem_value' = sem_value + 1
    /\ UNCHANGED <<urls, max_concurrent, fetch_result, fetch_pc>>
    /\ UNCHANGED nonFetchVars

\* line 120: a fetch raises; the task leaves `async with`, frees its slot,
\* and gather keeps the exception as the task's result
FetchRaises ==
    /\ fetch_pc = "gathering"
    /\ \E i \in 1..Len(fetch_task) :
         /\ fetch_task[i] = "in_flight"
         /\ fetch_task' = [fetch_task EXCEPT ![i] = "done"]
         /\ pages' = [pages EXCEPT ![i] = RaisedException(i)]
    /\ sem_value' = sem_value + 1
    /\ UNCHANGED <<urls, max_concurrent, fetch_result, fetch_pc>>
    /\ UNCHANGED nonFetchVars

\* lines 123-133: gather resumes, the dictionary is built and returned
GatherReturns ==
    /\ fetch_pc = "gathering"
    /\ GatherDone(fetch_task)
    /\ fetch_result' = BuildResult(urls, pages, 1, [u \in Urls |-> NoPage])
    /\ fetch_pc' = "returned"
    /\ UNCHANGED <<urls, max_concurrent, sem_value, fetch_task, pages>>
    /\ UNCHANGED nonFetchVars

FetchNext ==
    \/ SemaphoreRejects
    \/ StartGather
    \/ Acquire
    \/ FetchReturns
    \/ FetchRaises
    \/ GatherReturns

SpecFetch == FetchInit /\ [][FetchNext]_vars /\ WF_vars(FetchNext)

(***************************************************************************)
(* tools/tool_executor.py: ToolExecutor.execute_code_runner                *)
(***************************************************************************)
\* the language tags a caller passes
Languages == {"python", "javascript", "ruby"}

\* line 102: ["python", "javascript"] without the check
SupportedLanguages_Any == Languages

\* line 102: ["python", "javascript"]
SupportedLanguages == {"python", "javascript"}

\* The sources a caller passes, by what happens to them:
\*   exit0: runs and exits 0          exit1: runs and exits 1
\*   loops: runs longer than the 5 s limit
\*   unencodable: a str the file's encoding rejects (f.write raises)
Codes == {"exit0", "exit1", "loops", "unencodable"}

\* str(e) of what subprocess.run may raise when the interpreter is missing
RunExcTexts == {<<"No such file or directory">>, <<"boom">>}

\* lines 132-137
ProcessResult(rc) ==
    [keys |-> {"success", "stdout", "stderr", "returncode"},
     success |-> (rc = "0"), returncode |-> rc, error |-> <<>>]

\* lines 103 and 145: {"success": False, "error": text}
ErrorResult(text) ==
    [keys |-> {"success", "error"}, success |-> FALSE, returncode |-> None, error |-> text]

\* line 103
UnsupportedResult(lang) == ErrorResult(<<"Unsupported language: ", lang>>)

\* the timeout caught by the handler of line 144
TimeoutResult_Generic == ErrorResult(<<"boom">>)

\* line 143
TimeoutResult == ErrorResult(<<"Code execution timeout (5s limit)">>)

\* ToolExecutor() constructed, nothing run yet
RunnerInit ==
    /\ RunnerIdle
    /\ IdleTools("runner")
    /\ LoopIdleProtocol
    /\ ProtocolIdleLoop

\* execute_code_runner(language, code) is called (line 92)
CallRunner ==
    /\ run_pc \in {"ready", "returned"}
    /\ runner_calls < MaxRunnerCalls
    /\ language' \in Languages
    /\ code' \in Codes
    /\ runner_calls' = runner_calls + 1
    /\ temp_file' = 0
    /\ run_result' = NoRunResult
    /\ created' = 0
    /\ started' = FALSE
    /\ outcome' = "none"
    /\ run_pc' = "called"
    /\ UNCHANGED disk
    /\ UNCHANGED nonRunVars

\* lines 102-103
RejectLanguage ==
    /\ run_pc = "called"
    /\ language \notin SupportedLanguages
    /\ run_result' = UnsupportedResult(language)
    /\ outcome' = "unsupported"
    /\ run_pc' = "returned"
    /\ UNCHANGED <<language, code, disk, temp_file, runner_calls, created, started>>
    /\ UNCHANGED nonRunVars

\* lines 107-113: NamedTemporaryFile(delete=False) makes a new file, the
\* source is written, the file is closed and its name kept in temp_file
WriteFile ==
    /\ run_pc = "called"
    /\ language \in SupportedLanguages
    /\ code # "unencodable"
    /\ disk' = disk \cup {runner_calls}
    /\ created' = runner_calls
    /\ temp_file' = runner_calls
    /\ run_pc' = "written"
    /\ UNCHANGED <<language, code, run_result, runner_calls, started, outcome>>
    /\ UNCHANGED nonRunVars

\* lines 107-112 and 144-145: the file is made, f.write(code) raises, `with`
\* closes the file (delete=False keeps it), line 113 and the inner try are
\* never reached, and the outer handler returns the error
WriteRaises ==
    /\ run_pc = "called"
    /\ language \in SupportedLanguages
    /\ code = "unencodable"
    /\ disk' = disk \cup {runner_calls}
    /\ created' = runner_calls
    /\ run_result' = ErrorResult(<<"codec can't encode">>)
    /\ outcome' = "write_raised"
    /\ run_pc' = "returned"
    /\ UNCHANGED <<language, code, temp_file, runner_calls, started>>
    /\ UNCHANGED nonRunVars

\* lines 117-130: subprocess.run starts the interpreter
StartProcess ==
    /\ run_pc = "written"
    /\ started' = TRUE
    /\ run_pc' = "running"
    /\ UNCHANGED <<language, code, disk, temp_file, run_result, runner_calls, created,
                   outcome>>
    /\ UNCHANGED nonRunVars

\* lines 117-130, 138-140, 144-145: subprocess.run raises because the
\* interpreter cannot be started; finally unlinks, the outer handler returns
RunRaises ==
    /\ run_pc = "written"
    /\ \E t \in RunExcTexts : run_result' = ErrorResult(t)
    /\ disk' = disk \ {temp_file}
    /\ outcome' = "run_raised"
    /\ run_pc' = "returned"
    /\ UNCHANGED <<language, code, temp_file, runner_calls, created, started>>
    /\ UNCHANGED nonRunVars

\* lines 132-140: the process exits within the limit; the result is built,
\* finally unlinks the file
ProcessExits ==
    /\ run_pc = "running"
    /\ code \in {"exit0", "exit1"}
    /\ run_result' = ProcessResult(IF code = "exit0" THEN "0" ELSE "1")
    /\ disk' = disk \ {temp_file}
    /\ outcome' = "exited"
    /\ run_pc' = "returned"
    /\ UNCHANGED <<language, code, temp_file, runner_calls, created, started>>
    /\ UNCHANGED nonRunVars

\* lines 122/129, 138-143: subprocess.run raises TimeoutExpired after 5 s;
\* finally unlinks the file, the handler of line 142 returns
ProcessTimesOut ==
    /\ run_pc = "running"
    /\ code = "loops"
    /\ run_result' = TimeoutResult
    /\ disk' = disk \ {temp_file}
    /\ outcome' = "timeout"
    /\ run_pc' = "returned"
    /\ UNCHANGED <<language, code, temp_file, runner_calls, created, started>>
    /\ UNCHANGED nonRunVars

RunnerNext ==
    \/ CallRunner
    \/ RejectLanguage
    \/ WriteFile
    \/ WriteRaises
    \/ StartProcess
    \/ RunRaises
    \/ ProcessExits
    \/ ProcessTimesOut

SpecRunner == RunnerInit /\ [][RunnerNext]_vars /\ WF_vars(RunnerNext)

(***************************************************************************)
(* actions/search.py: WebSearchAction.execute                              *)
(***************************************************************************)
\* SearchResult(...).to_dict(), reduced to the fields the action reads
SearchResult(url, source) == [url |-> url, source |-> source]

\* web_search.py lines 112-119: what DDGSSearch._sync_search appends when the
\* backend throws
ErrorSearchResult == SearchResult("", "error")

\* What search_tool.search(query, max_results=3) may return: nothing, only
\* the error marker, valid results (one with a malformed URL), or valid
\* results followed by the error marker.
SearchReturns ==
    { <<>>,
      << ErrorSearchResult >>,
      << SearchResult("u1", "ddgs"), SearchResult("u2", "ddgs"), SearchResult("u3", "ddgs") >>,
      << SearchResult("u2", "ddgs"), SearchResult("not a url", "ddgs") >>,
      << SearchResult("u3", "ddgs"), ErrorSearchResult >> }

\* WebCrawler.is_valid_url(url): the URL has a scheme and a host
IsValidUrl(u) == u \in Urls

IsValidResult(r) == r.source # "error"

\* lines 99-101: the URLs of the top 2 valid results that are well formed
RECURSIVE QueuedUrls(_)
QueuedUrls(valid) ==
    IF valid = <<>> THEN <<>>
    ELSE (IF IsValidUrl(Head(valid).url) THEN << Head(valid).url >> ELSE <<>>)
         \o QueuedUrls(Tail(valid))

\* lines 109-112
SearchEntry(query, results) == [query |-> query, results |-> results]

\* lines 116-119: the except branch counts the failure and continues; it
\* appends nothing
AfterThrow(entries, query) == entries

\* the queries _generate_search_queries produced: pairwise different, at
\* most MaxQueries
QueryLists == { [i \in 1..k |-> <<"query", i>>] : k \in 0..MaxQueries }

\* lines 191-205
WsaResult(entries, crawled, successful, failed) ==
    [search_performed |-> Len(entries) > 0,
     crawl_performed |-> Len(crawled) > 0,
     search_results |-> entries,
     crawl_results |-> crawled,
     error |-> None,
     search_summary |-> IF Len(entries) > 0 THEN "summary" ELSE None]

\* what fetch_multiple returns for one of the URLs to crawl, as to_dict()
CrawlEntries(u) ==
    { [url |-> u, status_code |-> "200", error |-> None],
      [url |-> u, status_code |-> "0", error |-> "timeout"],
      [url |-> u, status_code |-> None, error |-> "boom"] }

\* line 147 without the deduplication of lines 139-144
UrlsToCrawl_NoDedup == Prefix(wsa_urls, wsa_max_crawl_urls)

\* line 147 after lines 139-144: the list handed to fetch_multiple
UrlsToCrawl == Prefix(Dedup(wsa_urls, <<>>), wsa_max_crawl_urls)

\* execute(state) is entered
WsaInit ==
    /\ wsa_ddgs \in BOOLEAN
    /\ wsa_enable_crawling \in BOOLEAN
    /\ wsa_max_crawl_urls \in 0..MaxCrawlUrlsBound
    /\ wsa_queries \in QueryLists
    /\ wsa_index = 0
    /\ wsa_all_results = <<>>
    /\ wsa_urls = <<>>
    /\ wsa_successful = 0
    /\ wsa_failed = 0
    /\ wsa_result = NoWsaResult
    /\ wsa_pc = "start"
    /\ wsa_searched = <<>>
    /\ IdleTools("search")
    /\ LoopIdleProtocol
    /\ ProtocolIdleLoop

\* lines 36-48: WebSearch() cannot be built
WsaToolInitFails ==
    /\ wsa_pc = "start"
    /\ ~wsa_ddgs
    /\ wsa_result' = [NoWsaResult EXCEPT !.error = "ddgs not installed"]
    /\ wsa_pc' = "returned"
    /\ UNCHANGED <<wsa_ddgs, wsa_enable_crawling, wsa_max_crawl_urls, wsa_queries,
                   wsa_index, wsa_all_results, wsa_urls, wsa_successful, wsa_failed,
                   wsa_searched>>
    /\ UNCHANGED nonWsaVars

\* lines 61-70: no queries
WsaNoQueries ==
    /\ wsa_pc = "start"
    /\ wsa_ddgs
    /\ wsa_queries = <<>>
    /\ wsa_result' = NoWsaResult
    /\ wsa_pc' = "returned"
    /\ UNCHANGED <<wsa_ddgs, wsa_enable_crawling, wsa_max_crawl_urls, wsa_queries,
                   wsa_index, wsa_all_results, wsa_urls, wsa_successful, wsa_failed,
                   wsa_searched>>
    /\ UNCHANGED nonWsaVars

\* lines 72-81: the query loop starts
WsaBeginSearch ==
    /\ wsa_pc = "start"
    /\ wsa_ddgs
    /\ wsa_queries # <<>>
    /\ wsa_index' = 1
    /\ wsa_pc' = "searching"
    /\ UNCHANGED <<wsa_ddgs, wsa_enable_crawling, wsa_max_crawl_urls, wsa_queries,
                   wsa_all_results, wsa_urls, wsa_successful, wsa_failed, wsa_result,
                   wsa_searched>>
    /\ UNCHANGED nonWsaVars

\* lines 84-114: search returns; URLs are queued, the entry is appended
WsaQueryReturns ==
    /\ wsa_pc = "searching"
    /\ wsa_index <= Len(wsa_queries)
    /\ \E results \in SearchReturns :
         LET valid == SelectSeq(results, IsValidResult)
         IN /\ wsa_successful' = IF valid # <<>> THEN wsa_successful + 1 ELSE wsa_successful
            /\ wsa_failed' = IF valid # <<>> THEN wsa_failed ELSE wsa_failed + 1
            /\ wsa_urls' = wsa_urls \o QueuedUrls(Prefix(valid, 2))
            /\ wsa_all_results' =
                    Append(wsa_all_results, SearchEntry(wsa_queries[wsa_index], results))
            /\ wsa_searched' = Append(wsa_searched, [thrown |-> FALSE, results |-> results])
    /\ wsa_index' = wsa_index + 1
    /\ UNCHANGED <<wsa_ddgs, wsa_enable_crawling, wsa_max_crawl_urls, wsa_queries,
                   wsa_result, wsa_pc>>
    /\ UNCHANGED nonWsaVars

\* lines 84 and 116-119: search raises
WsaQueryThrows ==
    /\ wsa_pc = "searching"
    /\ wsa_index <= Len(wsa_queries)
    /\ wsa_failed' = wsa_failed + 1
    /\ wsa_all_results' = AfterThrow(wsa_all_results, wsa_queries[wsa_index])
    /\ wsa_searched' = Append(wsa_searched, [thrown |-> TRUE, results |-> <<>>])
    /\ wsa_index' = wsa_index + 1
    /\ UNCHANGED <<wsa_ddgs, wsa_enable_crawling, wsa_max_crawl_urls, wsa_queries,
                   wsa_urls, wsa_successful, wsa_result, wsa_pc>>
    /\ UNCHANGED nonWsaVars

\* lines 137-160 and 191-205: the queued URLs are crawled and the result is
\* returned
WsaCrawlAndReturn ==
    /\ wsa_pc = "searching"
    /\ wsa_index > Len(wsa_queries)
    /\ wsa_enable_crawling
    /\ wsa_urls # <<>>
    /\ \E crawled \in [1..Len(UrlsToCrawl) -> UNION {CrawlEntries(u) : u \in Urls}] :
         /\ \A i \in 1..Len(UrlsToCrawl) : crawled[i] \in CrawlEntries(UrlsToCrawl[i])
         /\ wsa_result' = WsaResult(wsa_all_results, crawled, wsa_successful, wsa_failed)
    /\ wsa_pc' = "returned"
    /\ UNCHANGED <<wsa_ddgs, wsa_enable_crawling, wsa_max_crawl_urls, wsa_queries,
                   wsa_index, wsa_all_results, wsa_urls, wsa_successful, wsa_failed,
                   wsa_searched>>
    /\ UNCHANGED nonWsaVars

\* lines 184-205: nothing to crawl, or crawling disabled
WsaReturnWithoutCrawl ==
    /\ wsa_pc = "searching"
    /\ wsa_index > Len(wsa_queries)
    /\ ~wsa_enable_crawling \/ wsa_urls = <<>>
    /\ wsa_result' = WsaResult(wsa_all_results, <<>>, wsa_successful, wsa_failed)
    /\ wsa_pc' = "returned"
    /\ UNCHANGED <<wsa_ddgs, wsa_enable_crawling, wsa_max_crawl_urls, wsa_queries,
                   wsa_index, wsa_all_results, wsa_urls, wsa_successful, wsa_failed,
                   wsa_searched>>
    /\ UNCHANGED nonWsaVars

WsaNext ==
    \/ WsaToolInitFails
    \/ WsaNoQueries
    \/ WsaBeginSearch
    \/ WsaQueryReturns
    \/ WsaQueryThrows
    \/ WsaCrawlAndReturn
    \/ WsaReturnWithoutCrawl

SpecSearch == WsaInit /\ [][WsaNext]_vars /\ WF_vars(WsaNext)

(***************************************************************************)
(* core/state.py: an AgentState and the calls made on it                   *)
(***************************************************************************)
\* the ids callers give their tasks
TaskIds == {"a", "b"}

\* Task(id=id, content=..., status=status): the n-th task built by the caller
NewTask(id, n, status) == Task(id, ToString(n), {}, status, "high")

\* AgentState(user_request=...) constructed
StateInit ==
    /\ api_state = AgentState({})
    /\ api_pending = NoPending
    /\ api_calls = 0
    /\ api_last = NoCall
    /\ IdleTools("state")
    /\ LoopIdleProtocol
    /\ ProtocolIdleLoop

\* state.add_task(task)
ApiAddTask ==
    /\ api_calls < MaxStateCalls
    /\ \E id \in TaskIds, status \in TaskStatus :
         /\ api_state' = add_task(api_state,
                                  NewTask(id, Len(api_state.todo_list) + 1, status))
         /\ api_last' = [op |-> "add_task", id |-> id, status |-> status]
    /\ api_pending' = NoPending
    /\ api_calls' = api_calls + 1
    /\ UNCHANGED nonApiVars

\* state.update_task_status(task_id, status)
ApiUpdateTaskStatus ==
    /\ api_calls < MaxStateCalls
    /\ \E id \in TaskIds, status \in TaskStatus :
         /\ api_state' = update_task_status(api_state, id, status)
         /\ api_last' = [op |-> "update_task_status", id |-> id, status |-> status]
    /\ api_pending' = NoPending
    /\ api_calls' = api_calls + 1
    /\ UNCHANGED nonApiVars

\* state.get_pending_tasks(): builds a new list, assigns nothing
ApiGetPendingTasks ==
    /\ api_pending' = [called |-> TRUE, value |-> get_pending_tasks(api_state)]
    /\ api_last' = [op |-> "get_pending_tasks", id |-> "", status |-> ""]
    /\ UNCHANGED <<api_state, api_calls>>
    /\ UNCHANGED nonApiVars

StateNext ==
    \/ ApiAddTask
    \/ ApiUpdateTaskStatus
    \/ ApiGetPendingTasks

\* The caller's thread keeps running: an enabled call is eventually made.
SpecState == StateInit /\ [][StateNext]_vars /\ WF_vars(StateNext)

(***************************************************************************)
(* actions/search.py: _generate_search_queries on the states of its callers *)
(***************************************************************************)
\* the keywords the content of a task can hold (lines 231-236)
QueryTaskKinds == {{}, {"function"}, {"class"}, {"api"}, {"database"}}

\* the content of a task that holds the keywords kws
ContentOf(kws) == IF kws = {} THEN "plain" ELSE CHOOSE k \in kws : TRUE

\* the tasks of the todo lists
QueryTasks ==
    {Task("a", ContentOf(kws), kws, status, "high") :
        kws \in QueryTaskKinds, status \in {"pending", "completed"}}

\* todo lists of at most n tasks
TodoLists(n) == UNION {[1..k -> QueryTasks] : k \in 0..n}

\* state.analysis: absent, empty or a text
QueryAnalyses == {None, "", "analysis"}

\* state.context: without "error", or with the str(e) of an exception
QueryContexts ==
    {EmptyContext} \cup
    {[EmptyContext EXCEPT !.keys = {"error"}, !.error = e] : e \in ExcTexts}

\* _generate_search_queries(state) entered
QueriesInit ==
    /\ \E analysis \in QueryAnalyses, todo \in TodoLists(MaxQueryTasks),
          context \in QueryContexts :
          gsq_state = [AgentState({"function"}) EXCEPT !.analysis = analysis,
                                                      !.todo_list = todo,
                                                      !.context = context]
    /\ gsq_queries = NoQueries
    /\ IdleTools("queries")
    /\ LoopIdleProtocol
    /\ ProtocolIdleLoop

\* _generate_search_queries(state) returns (lines 216-248)
QueriesReturn ==
    /\ ~gsq_queries.called
    /\ gsq_queries' = [called |-> TRUE, value |-> GenerateSearchQueries(gsq_state)]
    /\ UNCHANGED gsq_state
    /\ UNCHANGED nonGsqVars

QueriesNext ==
    \/ QueriesReturn

\* The caller's thread keeps running: the call returns.
SpecQueries == QueriesInit /\ [][QueriesNext]_vars /\ WF_vars(QueriesNext)

Init ==
    \/ LoopInit \/ ProtocolInit \/ RegistryInit \/ FetchInit \/ RunnerInit \/ WsaInit
    \/ StateInit
    \/ QueriesInit
Next ==
    \/ LoopNext \/ ProtocolNext \/ RegistryNext \/ FetchNext \/ RunnerNext \/ WsaNext
    \/ StateNext
    \/ RunAgain
    \/ QueriesNext
Spec == Init /\ [][Next]_vars

(***************************************************************************)
(* Properties of AgenticLoop.run                                           *)
(***************************************************************************)
\* three dispatches in a row of the same action in the same phase
ReselectedTwice ==
    \E i \in 1..(Len(log) - 2) : log[i] = log[i + 1] /\ log[i + 1] = log[i + 2]

\* C1: for every request and both settings of enable_web_search, a run whose
\* executes all return normally terminates (run returns with is_complete
\* true) after a bounded number of dispatches, and no action is re-selected
\* more than once without a phase transition in between.
C1_RunTerminates ==
    /\ <>(loop_pc = "returned" /\ state.is_complete)
    /\ [](~ReselectedTwice)

\* C2: from the moment _determine_next_action has set is_complete, no
\* action's execute is invoked and no field of the state changes any more.
C2_TerminalAfterPolicyMark ==
    [][state.is_complete => (state' = state /\ log' = log)]_vars

\* C3: once Plan's tasks are merged, with search enabled the loop dispatches
\* web_search exactly once and then generate_code; with search disabled it
\* dispatches generate_code directly.
C3_SearchOnceThenGenerate ==
    \A i \in 1..Len(log) :
        (log[i].action = "create_todo" /\ ~exc.raised) =>
            IF enable_web_search
            THEN /\ (i + 1 <= Len(log) => log[i + 1].action = "web_search")
                 /\ (i + 2 <= Len(log) => log[i + 2].action = "generate_code")
            ELSE (i + 1 <= Len(log) => log[i + 1].action = "generate_code")

\* C4: if an action's execute raises, run returns (does not raise) with
\* context.error set to the exception text and is_complete true, dispatches
\* no further action, and leaves analysis, tasks, phase and generated code
\* as they were before that dispatch.
C4_RaiseIsTerminal ==
    [][/\ (~exc.raised /\ exc'.raised) =>
            /\ loop_pc' = "returned"
            /\ state'.is_complete
            /\ "error" \in state'.context.keys
            /\ state'.context.error = exc'.text
            /\ state'.analysis = state.analysis
            /\ state'.todo_list = state.todo_list
            /\ state'.current_step = state.current_step
            /\ state'.generated_code = state.generated_code
       /\ exc.raised => (log' = log /\ state' = state /\ loop_pc' = "returned")
      ]_vars

\* an execute raised after analysis and planning had been merged
C4_Witness ==
    /\ exc.raised
    /\ loop_pc = "returned"
    /\ state.current_step = "planned"
    /\ Len(state.todo_list) = 3
    /\ Truthy(state.analysis)

(***************************************************************************)
(* Properties of generate_with_tools                                       *)
(***************************************************************************)
Terminated == pc \in {"returned", "raised"}

\* generate_with_tools returned because a response was no tool request
FinalAnswered == pc = "returned" /\ response.stop_reason \notin {None, "tool_use"}

\* every response received so far was a tool request
EveryTurnToolUse == response.stop_reason \in {None, "tool_use"}

\* C5: with an engine that requests a tool on every turn, generate_with_tools
\* with max_iterations = N makes exactly N engine calls and then returns
\* stop_reason "max_iterations" with the budget-exhausted content and the
\* tool calls made so far, without raising.
C5_BudgetExhausted ==
    /\ (pc = "returned" /\ EveryTurnToolUse) =>
            /\ engine_calls = max_iterations
            /\ result.stop_reason = "max_iterations"
            /\ result.content = <<"Maximum tool use iterations reached">>
            /\ result.tool_calls = tool_calls_made
    /\ EveryTurnToolUse => pc # "final"

\* max_iterations = 3, three tool-use turns, then the budget-exhausted result
C5_Witness ==
    /\ pc = "returned"
    /\ max_iterations = 3
    /\ engine_calls = 3
    /\ response.stop_reason = "tool_use"
    /\ result.stop_reason = "max_iterations"
    /\ Len(result.tool_calls) >= 3

\* C6: whatever the engine answers and whatever the tools do,
\* generate_with_tools terminates after at most max_iterations engine calls;
\* the turn counter only increases.
C6_BoundedTurns ==
    /\ [](engine_calls <= max_iterations /\ iteration <= max_iterations)
    /\ [][iteration' >= iteration /\ engine_calls' >= engine_calls]_vars
    /\ <>Terminated

\* a run that used its whole budget of three turns and then stopped
C6_Witness ==
    /\ Terminated
    /\ max_iterations = 3
    /\ engine_calls = 3
    /\ iteration = 3
    /\ \E i \in 1..Len(conversation_messages) :
            /\ conversation_messages[i].kind = "tool_results"
            /\ \E j \in 1..Len(conversation_messages[i].content) :
                    conversation_messages[i].content[j].is_error

\* C7 as stated: a final answer is returned with stop_reason "final".
C7_StopReasonIsFinal ==
    FinalAnswered => result.stop_reason = "final"

\* C7 as amended: a final answer is returned with the stop reason the engine
\* gave in that response, which is not "tool_use".
C7_StopReasonIsEngines ==
    FinalAnswered =>
        /\ result.stop_reason = response.stop_reason
        /\ result.stop_reason \in {"end_turn", "max_tokens"}

\* a final answer after two tool-use turns
C7_Witness ==
    /\ FinalAnswered
    /\ engine_calls = 3
    /\ result.stop_reason = "end_turn"

IsTextBlock(b) == b.type = "text"

\* the texts of the text blocks of a content, in order
TextsInOrder(content) ==
    LET texts == SelectSeq(content, IsTextBlock)
    IN [i \in 1..Len(texts) |-> texts[i].text]

\* C8: generate_with_tools returns at the first response that is no tool
\* request: handling that response makes no engine call and no tool
\* invocation, and the returned content is the concatenation, in order, of
\* the response's text fragments.
C8_ReturnsAtFirstFinal ==
    /\ [](FinalAnswered =>
            /\ result.content = TextsInOrder(response.content)
            /\ result.tool_calls = tool_calls_made)
    /\ [][pc = "final" =>
            /\ pc' = "returned"
            /\ engine_calls' = engine_calls
            /\ tool_calls_made' = tool_calls_made
            /\ tool_results' = tool_results
            /\ conversation_messages' = conversation_messages]_vars

\* a final answer with two different fragments and a tool_use block between
\* them that is not executed
C8_Witness ==
    /\ FinalAnswered
    /\ result.content = <<"b", "a">>
    /\ Len(response.content) = 3
    /\ engine_calls = 2
    /\ Len(tool_calls_made) = 1

IsToolUse(b) == b.type = "tool_use"

RECURSIVE RequestedBlocks(_)
\* the tool_use blocks of the transcript's tool-request entries, turn by turn
\* and, within a turn, in the order of the blocks
RequestedBlocks(transcript) ==
    IF transcript = <<>> THEN <<>>
    ELSE (IF Head(transcript).kind = "tool_request"
          THEN SelectSeq(Head(transcript).content, IsToolUse) ELSE <<>>)
            \o RequestedBlocks(Tail(transcript))

Returned(b) == ~ExecuteTool(b.name, b.input).raises

\* the records of the requested invocations whose capability returned
ExpectedRecords(transcript) ==
    LET done == SelectSeq(RequestedBlocks(transcript), Returned)
    IN [i \in 1..Len(done) |->
            [name |-> done[i].name, input |-> done[i].input,
             result |-> ExecuteTool(done[i].name, done[i].input).value]]

\* C9: the tool-call record lists the invocations in the order they were
\* requested and executed: earlier turns first, and within a turn in the
\* order of the tool-request blocks.
C9_RecordsInRequestOrder ==
    /\ pc = "returned" => result.tool_calls = ExpectedRecords(conversation_messages)
    /\ pc = "call" => tool_calls_made = ExpectedRecords(conversation_messages)

\* one tool requested on turn 1, another on turn 2, the answer on turn 3:
\* exactly two records, in request order
C9_Witness ==
    /\ FinalAnswered
    /\ engine_calls = 3
    /\ Len(result.tool_calls) = 2
    /\ result.tool_calls[1].input = "x"
    /\ result.tool_calls[2].input = "y"

\* the ids of the tool_use blocks of a content, in order
ToolUseIds(content) ==
    LET uses == SelectSeq(content, IsToolUse)
    IN [i \in 1..Len(uses) |-> uses[i].id]

\* the tool_use_ids of a tool-result entry's content, in order
ResultIds(results) == [i \in 1..Len(results) |-> results[i].tool_use_id]

IsToolRequest(m) == m.kind = "tool_request"

\* every tool-request entry is directly followed by its tool-result entry
NoDanglingRequest(transcript) ==
    \A i \in 1..Len(transcript) :
        transcript[i].kind = "tool_request" =>
            /\ i + 1 <= Len(transcript)
            /\ transcript[i + 1].kind = "tool_results"
            /\ transcript[i + 1].role = "user"
            /\ ResultIds(transcript[i + 1].content) = ToolUseIds(transcript[i].content)

\* C10: in the transcript sent on every engine call, each tool-request entry
\* is immediately followed by one tool-result entry with one result per
\* requested invocation, same ids, same order; and the call of turn n+1 is
\* made only after the results of turn n are appended.
C10_NoDanglingRequests ==
    /\ NoDanglingRequest(sent)
    /\ engine_calls >= 1 =>
            Len(SelectSeq(sent, IsToolRequest)) = engine_calls - 1

\* the second call's transcript holds a turn with a failed and a successful
\* invocation
C10_Witness ==
    /\ engine_calls = 2
    /\ Len(sent) >= 2
    /\ sent[Len(sent)].kind = "tool_results"
    /\ Len(sent[Len(sent)].content) = 2
    /\ sent[Len(sent)].content[1].is_error
    /\ ~sent[Len(sent)].content[2].is_error

\* the current block is a tool_use block whose invocation fails
AtFailingInvocation ==
    /\ pc = "tools"
    /\ block <= Len(response.content)
    /\ response.content[block].type = "tool_use"
    /\ ExecuteTool(response.content[block].name, response.content[block].input).raises

\* C11: an invocation that fails (the capability raises, or the name is not
\* registered) does not end the protocol: the step adds one error-flagged
\* result carrying the invocation's id and moves on to the next block of the
\* same turn; every requested invocation of the turn processed so far has its
\* result; and a turn in progress always reaches the point of the next call.
C11_FailedToolIsIsolated ==
    /\ [][AtFailingInvocation =>
            /\ pc' = "tools"
            /\ block' = block + 1
            /\ Len(tool_results') = Len(tool_results) + 1
            /\ tool_results'[Len(tool_results')].tool_use_id = response.content[block].id
            /\ tool_results'[Len(tool_results')].is_error
            /\ response' = response]_vars
    /\ [](pc = "tools" =>
            ResultIds(tool_results) = ToolUseIds(Prefix(response.content, block - 1)))
    /\ (pc = "tools") ~> (pc = "call")

\* a turn whose first invocation failed and whose second succeeded has been
\* appended, and the budget allows the next call
C11_Witness ==
    /\ pc = "call"
    /\ iteration < max_iterations
    /\ Len(conversation_messages) >= 2
    /\ LET n == Len(conversation_messages)
       IN /\ conversation_messages[n].kind = "tool_results"
          /\ conversation_messages[n - 1].kind = "tool_request"
          /\ Len(conversation_messages[n].content) = 2
          /\ conversation_messages[n].content[1].is_error
          /\ conversation_messages[n].content[1].tool_use_id
                = conversation_messages[n - 1].content[2].id
          /\ ~conversation_messages[n].content[2].is_error
          /\ Len(tool_calls_made) >= 1

(***************************************************************************)
(* Properties of register_tool / _execute_tool                             *)
(***************************************************************************)
\* the callable of the last registration of `name` in a history ("None" if none)
LastRegistered(history, name) ==
    LET idx == {i \in 1..Len(history) : history[i].name = name}
    IN IF idx = {} THEN None
       ELSE history[CHOOSE i \in idx : \A j \in idx : j <= i].function

\* C12: after any sequence of register_tool calls, _execute_tool(name, input)
\* runs the callable most recently registered under name exactly once and
\* returns that callable's own outcome (its result, not a coroutine, for def
\* and async def alike); for a name never registered it raises and runs no
\* callable.
C12_ExecutesLastRegistered ==
    last_exec.done =>
        LET fn == LastRegistered(Prefix(registered, last_exec.at), last_exec.name)
            out == last_exec.out
        IN IF fn = None
              THEN out.raises /\ out.ran = <<>>
              ELSE /\ out.ran = <<fn>>
                   /\ ~out.coroutine
                   /\ out.raises <=> FunctionRaises(fn)
                   /\ out.value = <<fn, last_exec.input>>

\* a name registered twice, last with an async def, has been executed
C12_Witness ==
    /\ last_exec.done
    /\ last_exec.at = 2
    /\ registered[1].name = last_exec.name
    /\ registered[2].name = last_exec.name
    /\ registered[1].function = "f"
    /\ registered[2].function = "g_async"
    /\ last_exec.out.ran = <<"g_async">>
    /\ last_exec.out.value = <<"g_async", last_exec.input>>

(***************************************************************************)
(* Properties of fetch_multiple                                            *)
(***************************************************************************)
\* C13: while fetch_multiple(urls, max_concurrent=C) runs, never more than C
\* fetches are in flight: for every list of URLs, every interleaving of the
\* tasks, and also when fetches raise.
C13_AtMostCInFlight ==
    fetch_pc \in {"gathering", "returned"} => InFlight <= max_concurrent

\* more URLs than slots: all slots taken, a task waiting, and a fetch that
\* raised has already given its slot back
C13_Witness ==
    /\ fetch_pc = "gathering"
    /\ Len(urls) = 4
    /\ max_concurrent = 2
    /\ InFlight = 2
    /\ \E i \in 1..Len(fetch_task) : fetch_task[i] = "waiting"
    /\ \E i \in 1..Len(fetch_task) : fetch_task[i] = "done" /\ pages[i].exception

\* the keys of the returned dictionary
ResultKeys == {u \in Urls : fetch_result[u] # NoPage}

\* the URLs of the input list
InputUrls == {urls[i] : i \in 1..Len(urls)}

\* the last position of urls that holds u
LastPosition(u) == CHOOSE i \in 1..Len(urls) : urls[i] = u /\ \A j \in 1..Len(urls) : urls[j] = u => j <= i

\* C14 as stated: the returned dictionary has one entry per input URL: its
\* key set is the set of input URLs, and a list of n URLs yields n entries.
C14_OneEntryPerListPosition ==
    fetch_pc = "returned" =>
        /\ ResultKeys = InputUrls
        /\ Cardinality(ResultKeys) = Len(urls)

\* C14, amended: the key set of the returned dictionary is the set of input
\* URLs, each URL has the entry made from the fetch of its last position in
\* the list, and a list of n pairwise different URLs yields n entries.
C14_OneEntryPerDistinctUrl ==
    fetch_pc = "returned" =>
        /\ ResultKeys = InputUrls
        /\ \A u \in InputUrls :
              /\ fetch_result[u].url = u
              /\ fetch_result[u].by = LastPosition(u)
        /\ Cardinality(InputUrls) = Len(urls) => Cardinality(ResultKeys) = Len(urls)

\* three different URLs, one of whose fetches raised, gave three entries
C14_Witness ==
    /\ fetch_pc = "returned"
    /\ Len(urls) = 3
    /\ Cardinality(InputUrls) = 3
    /\ Cardinality(ResultKeys) = 3
    /\ \E i \in 1..3 : pages[i].exception

\* the entry position i of urls should have under the claim: an error entry
\* with the exception's text if its fetch raised, else the fetch's own page
EntryOf(i) ==
    IF pages[i].exception
        THEN /\ ~fetch_result[urls[i]].exception
             /\ fetch_result[urls[i]].url = urls[i]
             /\ fetch_result[urls[i]].error = pages[i].error
             /\ fetch_result[urls[i]].by = i
        ELSE fetch_result[urls[i]] = pages[i]

\* a settled fetch keeps its outcome whatever its siblings do
SettledIsKept ==
    \A j \in 1..Len(fetch_task) :
        fetch_task[j] = "done" => fetch_task'[j] = "done" /\ pages'[j] = pages[j]

\* C15 as stated: if the fetch of a URL raises, the URL's entry is an error
\* entry carrying the exception text, every sibling keeps its own result,
\* and fetch_multiple does not raise.
C15_RaiseBecomesErrorEntry ==
    /\ fetch_pc = "returned" => \A i \in 1..Len(urls) : EntryOf(i)
    /\ (\E i \in 1..Len(pages) : pages[i].exception) => fetch_pc # "raised"

\* C15, amended: if the fetch of a URL raises, the URL's entry is an error
\* entry carrying the exception text unless the same URL occurs again later
\* in the list (then the later fetch decides the entry); every fetch of
\* another URL runs to its own outcome and keeps its result; fetch_multiple
\* does not raise.
C15_RaiseBecomesErrorEntryOfLast ==
    /\ [](fetch_pc = "returned" =>
            \A i \in 1..Len(urls) : i = LastPosition(urls[i]) => EntryOf(i))
    /\ []((\E i \in 1..Len(pages) : pages[i].exception) => fetch_pc # "raised")
    /\ [][SettledIsKept]_vars

\* different URLs: the first fetch raised, the others returned pages, and the
\* result has the error entry next to the siblings' pages
C15_Witness ==
    /\ fetch_pc = "returned"
    /\ Len(urls) = 3
    /\ Cardinality(InputUrls) = 3
    /\ pages[1].exception
    /\ fetch_result[urls[1]].error = "boom"
    /\ fetch_result[urls[2]] = FetchedPage(urls[2], 2)
    /\ fetch_result[urls[3]] = FailedPage(urls[3], 3)

\* C16: fetch_multiple is a barrier: it returns only once every fetch it
\* started has settled (fetched, failed or raised); when the result is there
\* no fetch is in flight or waiting and every slot is free again.
C16_ReturnsAfterAllSettled ==
    /\ [](fetch_pc = "returned" =>
            /\ InFlight = 0
            /\ \A i \in 1..Len(urls) : fetch_task[i] = "done" /\ pages[i] # NoPage
            /\ sem_value = max_concurrent)
    /\ [][fetch_pc = "returned" => UNCHANGED fetchVars]_vars

\* four fetches through two slots, with all three kinds of outcome, settled
\* before the return
C16_Witness ==
    /\ fetch_pc = "returned"
    /\ Len(urls) = 4
    /\ max_concurrent = 2
    /\ \E i \in 1..4 : pages[i].exception
    /\ \E i \in 1..4 : pages[i].status_code = "0"
    /\ \E i \in 1..4 : pages[i].status_code = "200"

(***************************************************************************)
(* Properties of execute_code_runner                                       *)
(***************************************************************************)
\* C17: after execute_code_runner returns, by any exit path (clean exit,
\* non-zero exit, timeout, or an exception while writing or running the
\* source), the temporary file it created no longer exists.
C17_TempFileRemoved ==
    run_pc = "returned" => created \notin disk

\* C18: a language tag other than python and javascript is answered with the
\* unsupported-language failure, and at no point of that call has a file been
\* created or a process been started.
C18_UnsupportedFailsFast ==
    language \notin {"python", "javascript"} /\ run_pc # "ready" =>
        /\ created = 0
        /\ temp_file = 0
        /\ ~started
        /\ run_pc = "returned" =>
              /\ run_result = ErrorResult(<<"Unsupported language: ", language>>)
              /\ outcome = "unsupported"

\* a ruby source was rejected
C18_Witness ==
    /\ run_pc = "returned"
    /\ language = "ruby"
    /\ code = "exit0"
    /\ ~run_result.success
    /\ run_result.error[1] = "Unsupported language: "

\* C19: when the interpreter exceeds the time limit, execute_code_runner
\* returns a failure result with the timeout message, which no run that
\* ended otherwise (non-zero exit, any other failure) returns.
C19_TimeoutIsDistinct ==
    run_pc = "returned" =>
        /\ outcome = "timeout" <=> run_result = TimeoutResult
        /\ outcome = "timeout" =>
              /\ ~run_result.success
              /\ run_result.keys = {"success", "error"}
              /\ run_result # ProcessResult("1")

\* a javascript source that loops was started and stopped by the limit
C19_Witness ==
    /\ run_pc = "returned"
    /\ language = "javascript"
    /\ code = "loops"
    /\ started
    /\ outcome = "timeout"
    /\ run_result.error = <<"Code execution timeout (5s limit)">>

(***************************************************************************)
(* Properties of WebSearchAction.execute                                   *)
(***************************************************************************)
\* the entries of the returned search_results for the query at position i
EntriesOf(i) ==
    {k \in 1..Len(wsa_result.search_results) :
        wsa_result.search_results[k].query = wsa_queries[i]}

\* C20: when a queued query throws, the action does not abort: the returned
\* search_results holds the results of every other query, and the query that
\* threw is present as an entry marked with source "error".
C20_ThrowingQueryIsMarked ==
    wsa_pc = "returned" /\ wsa_ddgs =>
        \A i \in 1..Len(wsa_queries) :
            IF wsa_searched[i].thrown
                THEN \E k \in EntriesOf(i) :
                        \E j \in 1..Len(wsa_result.search_results[k].results) :
                            wsa_result.search_results[k].results[j].source = "error"
                ELSE \E k \in EntriesOf(i) :
                        wsa_result.search_results[k].results = wsa_searched[i].results

(***************************************************************************)
(* Properties of AgentState's task methods                                 *)
(***************************************************************************)
\* no two tasks of a todo list carry the same id
UniqueIds(todo) == \A i, j \in 1..Len(todo) : todo[i].id = todo[j].id => i = j

\* C21: in every reachable AgentState, that of a run after any Plan result is
\* merged and that of a caller after any sequence of add_task calls, no two
\* tasks of the todo list have the same id.
C21_TaskIdsUnique ==
    /\ UniqueIds(state.todo_list)
    /\ UniqueIds(api_state.todo_list)

\* the positions of a todo list that hold a pending task
PendingPositions(todo) == {i \in 1..Len(todo) : todo[i].status = "pending"}

\* the k-th smallest position of a set of positions
KthPosition(S, k) == CHOOSE i \in S : Cardinality({j \in S : j < i}) = k - 1

\* the pending tasks of a todo list, each once, in insertion order
PendingInOrder(todo) ==
    [k \in 1..Cardinality(PendingPositions(todo)) |->
        todo[KthPosition(PendingPositions(todo), k)]]

\* C22: after any sequence of add_task and update_task_status calls,
\* get_pending_tasks returns exactly the tasks whose status is pending, each
\* once, in insertion order, and the call does not change the state.
C22_PendingExactlyInOrder ==
    /\ [](api_pending.called => api_pending.value = PendingInOrder(api_state.todo_list))
    /\ [][api_pending'.called /\ api_pending' # api_pending => api_state' = api_state]_vars

\* get_pending_tasks was called on a list of three tasks whose first task is
\* not pending and returned the other two in insertion order
C22_Witness ==
    /\ api_pending.called
    /\ Len(api_state.todo_list) = 3
    /\ api_state.todo_list[1].status = "completed"
    /\ Len(api_pending.value) = 2
    /\ api_pending.value[1].content = "2"
    /\ api_pending.value[2].content = "3"

\* a status change that goes backward
Backward(old, new) ==
    \/ old \in {"completed", "failed"} /\ new \in {"pending", "in_progress"}
    \/ old = "in_progress" /\ new = "pending"

\* C23: a task's status only moves forward: no update_task_status call takes a
\* task from completed or failed back to pending or in_progress, nor from
\* in_progress back to pending.
C23_StatusMovesForward ==
    [][\A i \in 1..Len(api_state.todo_list) :
          ~Backward(api_state.todo_list[i].status, api_state'.todo_list[i].status)]_vars

\* the step is an update_task_status call
UpdateStep ==
    /\ api_calls' = api_calls + 1
    /\ api_last'.op = "update_task_status"

\* C35: update_task_status(id, s) sets the status of the task with that id to
\* s and leaves the id, content and status of every other task, the order and
\* length of tasks, and all other state fields unchanged; for an id no task
\* has, it changes nothing.
C35_UpdateTouchesOnlyThatTask ==
    [][UpdateStep =>
          LET old == api_state.todo_list
              new == api_state'.todo_list
              id == api_last'.id
          IN /\ Len(new) = Len(old)
             /\ \A i \in 1..Len(old) :
                   /\ new[i].id = old[i].id
                   /\ new[i].content = old[i].content
                   /\ new[i].status = IF old[i].id = id THEN api_last'.status
                                      ELSE old[i].status
             /\ [api_state' EXCEPT !.todo_list = <<>>]
                    = [api_state EXCEPT !.todo_list = <<>>]
             /\ (\A i \in 1..Len(old) : old[i].id # id) => api_state' = api_state]_vars

(***************************************************************************)
(* Properties of the AgentState of a run                                   *)
(***************************************************************************)
\* C24: in a run is_complete changes from false to true at most once and is
\* never reset to false, on the normal, can_execute and error paths alike.
C24_CompleteNeverReset ==
    [][state.is_complete => state'.is_complete]_vars

\* a run in which the policy marked the state complete and the dispatch that
\* followed raised, so that mark_complete ran a second time
C24_Witness ==
    /\ loop_pc = "returned"
    /\ exc.raised
    /\ Truthy(state.generated_code)
    /\ state.is_complete

\* history: how many of the remembered dispatches went to the action name
DispatchCount(name) == Cardinality({i \in 1..Len(log) : log[i].action = name})

\* C25: generated_code is written at most once in a run: generate_code is never
\* dispatched while generated output is present, and no other step assigns it.
C25_CodeWrittenOnce ==
    /\ [](loop_pc = "execute" /\ action = "generate_code"
             => ~Truthy(state.generated_code))
    /\ [](DispatchCount("generate_code") <= 1)
    /\ [][state'.generated_code # state.generated_code
             => loop_pc = "execute" /\ action = "generate_code"
                /\ ~Truthy(state.generated_code)]_vars

\* a run that returned after its single generate_code dispatch
C25_Witness ==
    /\ loop_pc = "returned"
    /\ ~exc.raised
    /\ Truthy(state.generated_code)
    /\ DispatchCount("generate_code") = 1
    /\ \A i \in 1..Len(state.todo_list) : state.todo_list[i].status = "completed"

\* C26: the loop assigns state.analysis at most one time between the start of a
\* run and its return: a result of analyze_requirement is only merged into a
\* state that has no analysis yet.
C26_AnalysisAssignedOnce ==
    [][loop_pc = "execute" /\ action = "analyze_requirement" /\ ~exc'.raised
         => ~Truthy(state.analysis)]_vars

\* the order of the phases
StepRank(step) ==
    CASE step = "start" -> 0
      [] step = "analyzed" -> 1
      [] step = "planned" -> 2
      [] step = "completed" -> 3

\* C27: current_step never moves backward in the order start, analyzed,
\* planned, completed, and a run that returns with generated output present
\* returns with current_step = completed.
C27_PhaseNeverMovesBack ==
    /\ [][StepRank(state.current_step) <= StepRank(state'.current_step)]_vars
    /\ [](loop_pc = "returned" /\ Truthy(state.generated_code)
             => state.current_step = "completed")

AtRunStart == loop_pc = "select" /\ log = <<>>

\* C29: every call of run starts from a fresh AgentState in which only the
\* request is populated (no tasks, no analysis, no generated code, phase start,
\* empty context, not complete), also when the same loop object has already
\* completed earlier runs.
C29_RunStartsFresh ==
    AtRunStart =>
        /\ state.user_request \in Requests
        /\ state.todo_list = <<>>
        /\ state.analysis = None
        /\ state.generated_code = None
        /\ state.current_step = "start"
        /\ state.context.keys = {}
        /\ ~state.is_complete

\* the start of a later run: the search tool an earlier run built is there
C29_Witness ==
    /\ AtRunStart
    /\ search_tool = "WebSearch"

\* C30: while there is no analysis and the phase is start, with search enabled
\* the first action dispatched is web_search and analyze_requirement is
\* dispatched only after a web_search result has been merged; with search
\* disabled the first action dispatched is analyze_requirement.
C30_SearchBeforeAnalyze ==
    /\ Len(log) >= 1 =>
          log[1].action = IF enable_web_search THEN "web_search"
                          ELSE "analyze_requirement"
    /\ ( /\ enable_web_search
         /\ loop_pc = "execute"
         /\ action = "analyze_requirement"
         /\ state.current_step = "start" )
         => /\ "search_results" \in state.context.keys
            /\ DispatchCount("web_search") >= 1

\* search enabled: two web_search dispatches (the first one found nothing),
\* then analyze_requirement
C30_Witness ==
    /\ enable_web_search
    /\ Len(log) >= 3
    /\ log[1].action = "web_search"
    /\ log[2].action = "web_search"
    /\ log[3].action = "analyze_requirement"
    /\ ~exc.raised

(***************************************************************************)
(* Properties of the transition policy                                     *)
(***************************************************************************)
\* history: some remembered dispatch went to the action name
Dispatched(name) == \E i \in 1..Len(log) : log[i].action = name

\* C31: create_todo is dispatched only in states where an analysis is present
\* and the todo list is empty, and generate_code only in states where pending
\* tasks exist and no generated code is present; so analyze_requirement's
\* result is merged before create_todo is dispatched, and create_todo's
\* before generate_code.
C31_PlanAfterAnalyzeBeforeGenerate ==
    /\ (loop_pc = "execute" /\ action = "create_todo") =>
          /\ Truthy(state.analysis)
          /\ state.todo_list = <<>>
          /\ Len(log) < MaxLog => Dispatched("analyze_requirement")
    /\ (loop_pc = "execute" /\ action = "generate_code") =>
          /\ PendingPositions(state.todo_list) # {}
          /\ ~Truthy(state.generated_code)
          /\ Len(log) < MaxLog =>
                \E i, j \in 1..Len(log) :
                    /\ i < j
                    /\ log[i].action = "analyze_requirement"
                    /\ log[j].action = "create_todo"

\* generate_code is being dispatched after analyze_requirement and create_todo
C31_Witness ==
    /\ loop_pc = "execute"
    /\ action = "generate_code"
    /\ Len(log) = 2
    /\ log[1].action = "analyze_requirement"
    /\ log[2].action = "create_todo"
    /\ Len(state.todo_list) >= 3

\* C32: if the selected action reports can_execute false, the loop marks the
\* run complete and returns without calling that action's execute and without
\* changing analysis, todo list, generated code, phase or context.
C32_CannotExecuteEndsRun ==
    [][loop_pc = "select" /\ loop_pc' = "returned" =>
         /\ state'.is_complete
         /\ log' = log
         /\ ~exc'.raised
         /\ state'.analysis = state.analysis
         /\ state'.todo_list = state.todo_list
         /\ state'.generated_code = state.generated_code
         /\ state'.current_step = state.current_step
         /\ state'.context = state.context
         /\ state'.user_request = state.user_request]_vars

\* a run that ended because generate_code reported can_execute false
C32_Witness ==
    /\ loop_pc = "returned"
    /\ ~exc.raised
    /\ action = "generate_code"
    /\ state.is_complete
    /\ state.current_step = "planned"
    /\ ~Truthy(state.generated_code)
    /\ Len(log) = 2

(***************************************************************************)
(* Properties of _generate_search_queries                                  *)
(***************************************************************************)
\* where a query comes from: 0 the request, 1 a pending task, 2 the error
QueryRank(q) ==
    CASE q[1] \in {"how to implement", "best practices"} -> 0
      [] q[1] = "solution" -> 2
      [] OTHER -> 1

\* the returned list as the claim describes it, where errorIsSet says when the
\* context counts as holding an error
QueriesAsDescribed(errorIsSet) ==
    LET qs == gsq_queries.value
        first2 == Prefix(PendingInOrder(gsq_state.todo_list), 2)
        fromTasks == {i \in 1..Len(qs) : QueryRank(qs[i]) = 1}
        fromError == {i \in 1..Len(qs) : QueryRank(qs[i]) = 2}
    IN gsq_queries.called =>
         /\ Len(qs) <= 3
         /\ \A i, j \in 1..Len(qs) : qs[i] = qs[j] => i = j
         /\ \A i, j \in 1..Len(qs) : i < j => QueryRank(qs[i]) <= QueryRank(qs[j])
         /\ ~Truthy(gsq_state.analysis) =>
                /\ Len(qs) >= 2
                /\ qs[1] = <<"how to implement", "request">>
                /\ qs[2] = <<"best practices", "request">>
         /\ Cardinality(fromTasks) <= 2
         /\ \A i \in fromTasks : \E k \in 1..Len(first2) : TaskQuery(first2[k]) = <<qs[i]>>
         /\ errorIsSet =>
                /\ Cardinality(fromError) = 1
                /\ \A i \in fromError : qs[i] = <<"solution", gsq_state.context.error>>

\* C33 as stated: for every state _generate_search_queries returns at most 3
\* queries, without duplicates, in first-seen order; without an analysis the
\* first two are the two general queries; at most two pending tasks contribute
\* a query; a context.error that is set contributes one query.
C33_QueriesWithSetError ==
    QueriesAsDescribed("error" \in gsq_state.context.keys)

\* C33: for every state _generate_search_queries returns at most 3 queries,
\* without duplicates, in first-seen order; without an analysis the first two
\* are the two general queries; at most two pending tasks contribute a query;
\* a context.error that is a non-empty text contributes one query.
C33_QueriesWithNonEmptyError ==
    QueriesAsDescribed("error" \in gsq_state.context.keys /\ gsq_state.context.error # "")

\* three pending tasks with keywords and an error: the first two tasks and
\* the error give the three queries
C33_Witness ==
    /\ gsq_queries.called
    /\ Truthy(gsq_state.analysis)
    /\ Len(gsq_state.todo_list) = 3
    /\ \A i \in 1..3 : /\ gsq_state.todo_list[i].status = "pending"
                        /\ gsq_state.todo_list[i].kws # {}
    /\ gsq_state.todo_list[1] # gsq_state.todo_list[2]
    /\ gsq_state.context.error = "boom"
    /\ Len(gsq_queries.value) = 3
    /\ gsq_queries.value[3] = <<"solution", "boom">>

(***************************************************************************)
(* Properties of the URL queue of WebSearchAction.execute                  *)
(***************************************************************************)
\* execute has run all queries and is about to call fetch_multiple
AboutToCrawl ==
    /\ wsa_pc = "searching"
    /\ wsa_index > Len(wsa_queries)
    /\ wsa_enable_crawling
    /\ wsa_urls # <<>>

\* history: result r of query q is one of the top two non-error results of a
\* query that did not throw
IsTopValid(q, r) ==
    LET results == wsa_searched[q].results
    IN /\ ~wsa_searched[q].thrown
       /\ r \in 1..Len(results)
       /\ results[r].source # "error"
       /\ Cardinality({k \in 1..(r - 1) : results[k].source # "error"}) < 2

\* history: where the URL was first seen among those results (query first,
\* then position in the query's results); 0 when it never was
FirstSeen(u) ==
    LET at == {10 * q + r : q \in 1..Len(wsa_searched), r \in 1..9}
        seen == {n \in at : /\ IsTopValid(n \div 10, n % 10)
                            /\ wsa_searched[n \div 10].results[n % 10].url = u}
    IN IF seen = {} THEN 0 ELSE CHOOSE n \in seen : \A k \in seen : n <= k

\* C34: the list of URLs handed to fetch_multiple has no duplicates, has at
\* most max_crawl_urls entries, and holds only well-formed URLs taken from
\* non-error results of queries that did not throw, in first-seen order.
C34_HandedUrlsCapped ==
    AboutToCrawl =>
        LET handed == UrlsToCrawl
        IN /\ \A i, j \in 1..Len(handed) : handed[i] = handed[j] => i = j
           /\ Len(handed) <= wsa_max_crawl_urls
           /\ \A i \in 1..Len(handed) : handed[i] \in Urls /\ FirstSeen(handed[i]) > 0
           /\ \A i, j \in 1..Len(handed) :
                  i < j => FirstSeen(handed[i]) < FirstSeen(handed[j])

\* three queries: one threw, the others queued u1, u2 and again u2; the cap
\* of two URLs is reached after deduplication
C34_Witness ==
    /\ AboutToCrawl
    /\ wsa_max_crawl_urls = 2
    /\ \E q \in 1..Len(wsa_searched) : wsa_searched[q].thrown
    /\ Len(wsa_urls) >= 3
    /\ Len(Dedup(wsa_urls, <<>>)) >= 2
    /\ UrlsToCrawl = <<"u1", "u2">>

\* the loop is about to select, search is enabled, there is no analysis and
\* the last web_search result merged said search_performed = False
FailedSearchMerged ==
    /\ loop_pc = "select"
    /\ enable_web_search
    /\ ~state.is_complete
    /\ ~Truthy(state.analysis)
    /\ state.current_step = "start"
    /\ "search_performed" \in state.context.keys
    /\ ~state.context.search_performed

\* C36: with search enabled and no analysis yet, analyze_requirement is
\* dispatched only after some web_search result with search_performed = true
\* has been merged: each time web_search returns search_performed = false (the
\* tool failed to initialise, or every query threw), the loop dispatches
\* web_search again.
C36_SearchRepeatsUntilPerformed ==
    /\ []( ( /\ enable_web_search
              /\ loop_pc = "execute"
              /\ action = "analyze_requirement"
              /\ ~Truthy(state.analysis) )
            => ContextTruthy(state, "search_performed") )
    /\ [][FailedSearchMerged /\ loop_pc' # "select" => action' = "web_search"]_vars

\* the first web_search found nothing (every query threw), the second one
\* did, and analyze_requirement is dispatched third
C36_Witness ==
    /\ enable_web_search
    /\ loop_pc = "execute"
    /\ action = "analyze_requirement"
    /\ ~Truthy(state.analysis)
    /\ Len(log) = 2
    /\ log[1].action = "web_search"
    /\ log[2].action = "web_search"
    /\ state.context.search_performed

\* C37: when the loop merges a generate_code result every task gets status
\* completed, so whenever a run returns with generated output present and no
\* error, get_pending_tasks is empty.
C37_NothingPendingAfterGenerate ==
    ( /\ loop_pc = "returned"
      /\ Truthy(state.generated_code)
      /\ "error" \notin state.context.keys )
      => /\ get_pending_tasks(state) = <<>>
         /\ \A i \in 1..Len(state.todo_list) : state.todo_list[i].status = "completed"

(***************************************************************************)
(* Properties of generate_with_tools and register_tool, continued          *)
(***************************************************************************)
RECURSIVE TranscriptResults(_)
\* the tool results of the transcript's tool-result entries, turn by turn
TranscriptResults(transcript) ==
    IF transcript = <<>> THEN <<>>
    ELSE (IF Head(transcript).kind = "tool_results" THEN Head(transcript).content ELSE <<>>)
            \o TranscriptResults(Tail(transcript))

\* C38: the tool-call record returned by generate_with_tools contains one
\* {name, input, result} record for each requested invocation whose capability
\* returned normally, and no record for an invocation whose execution failed;
\* a failed invocation appears only as an error-flagged tool result in the
\* transcript.
C38_RecordsOnlyForSuccesses ==
    pc = "returned" =>
        LET results == TranscriptResults(conversation_messages)
        IN /\ result.tool_calls = ExpectedRecords(conversation_messages)
           /\ Len(result.tool_calls)
                 = Cardinality({i \in 1..Len(results) : ~results[i].is_error})

\* the positions of tool_definitions that define name
DefinitionsOf(name) == {i \in 1..Len(tool_definitions) : tool_definitions[i].name = name}

\* C39: after any sequence of register_tool calls, including registering the
\* same name more than once, tool_definitions contain exactly one definition
\* for each name in tool_registry, and it is the one registered last.
C39_OneDefinitionPerName ==
    \A name \in ToolNames :
        /\ tool_registry[name] = None => DefinitionsOf(name) = {}
        /\ tool_registry[name] # None =>
              /\ Cardinality(DefinitionsOf(name)) = 1
              /\ \A i \in DefinitionsOf(name) :
                    \A j \in 1..Len(registered) : registered[j].name = name => j <= i

====
